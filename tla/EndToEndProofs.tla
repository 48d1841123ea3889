----------------------------- MODULE EndToEndProofs -----------------------------
(***************************************************************************)
(* Theorems about EndToEnd: behind the whole chain, the bot implements     *)
(* Suspicion of the machine, and client and server keep what they keep     *)
(* without it.                                                             *)
(***************************************************************************)
EXTENDS EndToEnd, ClientLinkProofs, StatusBotProofs

(* The status and the bot only watch the client and the server.            *)
LEMMA ChainIsLink == SpecAll => Spec
<1>1. InitAll => Init
  BY DEF InitAll
<1>2. [NextAll]_allVars => [Next]_vars
  <2> SUFFICES ASSUME [NextAll]_allVars PROVE [Next]_vars
    OBVIOUS
  <2>1. CASE LinkStep
    BY <2>1, Zenon DEF LinkStep
  <2>2. CASE Publish \/ Poll \/ BotRestarts
    BY <2>2, Zenon DEF Publish, Poll, BotRestarts
  <2>3. CASE UNCHANGED allVars
    BY <2>3, Zenon DEF allVars
  <2>4. QED
    BY <2>1, <2>2, <2>3, Zenon DEF NextAll
<1>3. QED
  BY <1>1, <1>2, PTL DEF SpecAll, Spec

(* The status on its way to the bot says on or off.                        *)
LEMMA PublishedIsOnOrOff == SpecAll => [](published \in BOOLEAN)
<1>1. InitAll => published \in BOOLEAN
  BY DEF InitAll
<1>2. published \in BOOLEAN /\ [NextAll]_allVars => (published \in BOOLEAN)'
  <2> SUFFICES ASSUME published \in BOOLEAN, [NextAll]_allVars PROVE published' \in BOOLEAN
    OBVIOUS
  <2>1. Online \in BOOLEAN
    BY DEF Online
  <2>2. CASE Publish
    BY <2>1, <2>2, Zenon DEF Publish
  <2>3. CASE LinkStep \/ Poll \/ BotRestarts \/ UNCHANGED allVars
    BY <2>3, Zenon DEF LinkStep, Poll, BotRestarts, allVars
  <2>4. QED
    BY <2>2, <2>3, Zenon DEF NextAll
<1>3. QED
  BY <1>1, <1>2, PTL DEF SpecAll

(* Whatever is published, the bot takes steps of its own.                  *)
LEMMA ChainIsBot == SpecAll => BotSpec
<1>1. InitAll => BotInit
  BY DEF InitAll
<1>2. published \in BOOLEAN /\ [NextAll]_allVars => [BotNext]_botVars
  <2> SUFFICES ASSUME published \in BOOLEAN, [NextAll]_allVars PROVE [BotNext]_botVars
    OBVIOUS
  <2>1. CASE Poll
    <3>1. User \in Servers /\ Send2tg(User, published)
      BY <2>1, UserAssumption DEF Poll, UserAssumption
    <3>2. QED
      BY <3>1, Zenon DEF BotNext
  <2>2. CASE BotRestarts
    BY <2>2, Zenon DEF BotRestarts, BotNext
  <2>3. CASE LinkStep \/ Publish \/ UNCHANGED allVars
    BY <2>3, Zenon DEF LinkStep, Publish, allVars
  <2>4. QED
    BY <2>1, <2>2, <2>3, Zenon DEF NextAll
<1>3. QED
  BY <1>1, <1>2, PublishedIsOnOrOff, PTL DEF SpecAll, BotSpec

(* What the bot says of the machine alternates, each time after more       *)
(* published statuses against the notice before than its patience, however *)
(* client, server and publication interleave with its polls.               *)
THEOREM ChainImplementsSuspicion == SpecAll => ImplementsSuspicion
BY ChainIsBot, BotImplementsSuspicion, PTL

(* Watched or not, a client in session has entries only for monitors it was*)
(* given, and the rate in each is that of one worker that writes to it.    *)
THEOREM ChainKeepsSessions == SpecAll => [](MonitorsOfSession /\ RatesOfHistory)
BY ChainIsLink, MonitorsAreOfSession, RatesAreOfHistory, PTL
===============================================================================
