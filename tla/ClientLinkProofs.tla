---------------------------- MODULE ClientLinkProofs ----------------------------
(***************************************************************************)
(* Theorems about ClientLink: for any connections, monitors and lists of   *)
(* them, a client in session has entries only for monitors it was given,   *)
(* and the rate in each is the share of losses in the last checks of one   *)
(* worker that writes to it.                                               *)
(***************************************************************************)
EXTENDS ClientLink, FunctionTheorems, FiniteSetTheorems, SequenceTheorems, TLAPS

-------------------------------------------------------------------------------
(* The history of a monitor: whatever the length of the queue, the counter *)
(* kept beside it stays the number of losses in it.                        *)

(* The queue has room for a result.                                        *)
LEMMA LengthIsPositive == HistoryLen \in Nat /\ HistoryLen > 0 /\ Enough \in Nat
BY HistoryAssumption DEF HistoryAssumption

(* Where a queue has its losses.                                           *)
Lost(q) == {i \in DOMAIN q : ~q[i]}

(* The losses of a queue are finitely many.                                *)
LEMMA LostIsFinite ==
    ASSUME NEW q \in Seq(BOOLEAN)
    PROVE  IsFiniteSet(Lost(q)) /\ Lost(q) \subseteq 1 .. Len(q) /\ Losses(q) \in Nat
<1>1. Lost(q) \in SUBSET (1 .. Len(q)) /\ Len(q) \in Nat
  BY DEF Lost
<1>2. IsFiniteSet(1 .. Len(q))
  BY <1>1, FS_Interval
<1>3. IsFiniteSet(Lost(q))
  BY <1>1, <1>2, FS_Subset
<1>4. QED
  BY <1>1, <1>3, FS_CardinalityType DEF Losses, Lost

(* The result of a check is counted if it is a loss.                       *)
LEMMA LossesOfAppend ==
    ASSUME NEW q \in Seq(BOOLEAN), NEW success \in BOOLEAN
    PROVE  Losses(Append(q, success)) = IF success THEN Losses(q) ELSE Losses(q) + 1
<1> DEFINE longer == Append(q, success)
<1>1. /\ longer \in Seq(BOOLEAN) /\ Len(longer) = Len(q) + 1 /\ Len(q) \in Nat
      /\ \A i \in 1 .. Len(q) : longer[i] = q[i]
      /\ longer[Len(q) + 1] = success
  BY AppendProperties
<1>2. DOMAIN longer = 1 .. Len(q) + 1 /\ DOMAIN q = 1 .. Len(q)
  BY <1>1, LenProperties
<1> HIDE DEF longer
<1>3. Lost(longer) = IF success THEN Lost(q) ELSE Lost(q) \cup {Len(q) + 1}
  BY <1>1, <1>2 DEF Lost
<1>4. Len(q) + 1 \notin Lost(q) /\ IsFiniteSet(Lost(q))
  BY <1>1, LostIsFinite
<1>5. Cardinality(Lost(q) \cup {Len(q) + 1}) = Cardinality(Lost(q)) + 1
  BY <1>4, FS_AddElement
<1>6. QED
  BY <1>3, <1>5 DEF Losses, Lost, longer

(* The oldest result is no longer counted if it was a loss: the others     *)
(* move one place to the front.                                            *)
LEMMA LossesOfTail ==
    ASSUME NEW q \in Seq(BOOLEAN), q # <<>>
    PROVE  Losses(Tail(q)) = IF Head(q) THEN Losses(q) ELSE Losses(q) - 1
<1>1. /\ Tail(q) \in Seq(BOOLEAN) /\ Len(Tail(q)) = Len(q) - 1 /\ Len(q) \in Nat \ {0}
      /\ \A i \in 1 .. Len(Tail(q)) : Tail(q)[i] = q[i + 1]
      /\ Head(q) = q[1] /\ Head(q) \in BOOLEAN
  BY HeadTailProperties, EmptySeq
<1>2. DOMAIN Tail(q) = 1 .. Len(q) - 1 /\ DOMAIN q = 1 .. Len(q)
  BY <1>1, LenProperties
<1> DEFINE later == Lost(q) \ {1}
           back == [i \in later |-> i - 1]
<1>3. /\ \A i \in later : i - 1 \in Lost(Tail(q)) /\ i \in Int
      /\ \A j \in Lost(Tail(q)) : j \in Int /\ j + 1 \in later
  BY <1>1, <1>2 DEF Lost
<1>4. back \in Bijection(later, Lost(Tail(q)))
  <2>1. back \in [later -> Lost(Tail(q))]
    BY <1>3
  <2>2. \A i, j \in later : back[i] = back[j] => i = j
    BY <1>3
  <2>3. \A j \in Lost(Tail(q)) : \E i \in later : back[i] = j
    <3>1. ASSUME NEW j \in Lost(Tail(q))
          PROVE  \E i \in later : back[i] = j
      <4>1. j + 1 \in later /\ back[j + 1] = j
        BY <1>3
      <4>2. QED
        BY <4>1
    <3>2. QED
      BY <3>1
  <2>4. QED
    BY <2>1, <2>2, <2>3, Fun_IsBij
<1>5. IsFiniteSet(Lost(q))
  BY LostIsFinite
<1>6. /\ IsFiniteSet(later)
      /\ Cardinality(later) = IF 1 \in Lost(q) THEN Cardinality(Lost(q)) - 1
                              ELSE Cardinality(Lost(q))
  BY <1>5, FS_RemoveElement
<1>7. ExistsBijection(later, Lost(Tail(q)))
  BY <1>4 DEF ExistsBijection
<1>8. Cardinality(Lost(Tail(q))) = Cardinality(later)
  BY <1>6, <1>7, FS_Bijection
<1>9. 1 \in Lost(q) <=> ~Head(q)
  <2>1. 1 \in DOMAIN q
    BY <1>1, <1>2
  <2>2. QED
    BY <2>1, <1>1 DEF Lost
<1>10. QED
  BY <1>6, <1>8, <1>9 DEF Losses, Lost

(* One check of a monitor: the queue keeps its bound, the counter counts   *)
(* the losses in it.                                                       *)
THEOREM RecordCountsLosses ==
    ASSUME NEW h \in Histories, CountsItsLosses(h), NEW success \in BOOLEAN
    PROVE  Record(h, success) \in Histories /\ CountsItsLosses(Record(h, success))
<1> DEFINE o == OldestLeaves(h)
<1>1. h.history \in Seq(BOOLEAN) /\ h.lostCount = Losses(h.history) /\ Len(h.history) \in Nat
  BY DEF Histories, CountsItsLosses
<1>2. o \in Histories /\ Len(o.history) < HistoryLen /\ o.lostCount = Losses(o.history)
  <2>1. CASE Len(h.history) < HistoryLen
    BY <2>1, <1>1 DEF OldestLeaves
  <2>2. CASE ~(Len(h.history) < HistoryLen)
    <3>1. h.history # <<>>
      BY <2>2, LengthIsPositive
    <3>2. o = [history |-> Tail(h.history),
               lostCount |-> IF Head(h.history) THEN h.lostCount ELSE h.lostCount - 1]
      BY <2>2 DEF OldestLeaves
    <3>3. /\ Tail(h.history) \in Seq(BOOLEAN)
          /\ Len(Tail(h.history)) = Len(h.history) - 1
      BY <3>1, <1>1, HeadTailProperties
    <3>4. Len(h.history) <= HistoryLen
      BY DEF CountsItsLosses
    <3>5. Losses(Tail(h.history)) =
              IF Head(h.history) THEN Losses(h.history) ELSE Losses(h.history) - 1
      BY <3>1, <1>1, LossesOfTail
    <3>6. Losses(Tail(h.history)) \in Nat
      BY <3>3, LostIsFinite
    <3> HIDE DEF o
    <3>7. o.history = Tail(h.history) /\ o.lostCount = Losses(Tail(h.history))
      BY <3>2, <3>5, <1>1
    <3>8. o \in Histories
      <4>1. o = [history |-> Tail(h.history), lostCount |-> Losses(Tail(h.history))]
        BY <3>2, <3>5, <1>1
      <4>2. QED
        BY <3>3, <3>6, <4>1 DEF Histories
    <3>9. QED
      BY <3>3, <3>4, <3>7, <3>8, <1>1, LengthIsPositive
  <2>3. QED
    BY <2>1, <2>2
<1> HIDE DEF o
<1>3. o.history \in Seq(BOOLEAN) /\ Losses(o.history) \in Nat /\ Len(o.history) \in Nat
  BY <1>2, LostIsFinite DEF Histories
<1>4. /\ Append(o.history, success) \in Seq(BOOLEAN)
      /\ Len(Append(o.history, success)) = Len(o.history) + 1
  BY <1>3, AppendProperties
<1>5. Record(h, success) = [history |-> Append(o.history, success),
                            lostCount |-> IF success THEN o.lostCount ELSE o.lostCount + 1]
  BY DEF Record, Checked, o
<1>6. Losses(Append(o.history, success)) = IF success THEN o.lostCount ELSE o.lostCount + 1
  BY <1>2, <1>3, LossesOfAppend
<1>7. QED
  BY <1>2, <1>3, <1>4, <1>5, <1>6, LengthIsPositive DEF Histories, CountsItsLosses

(* A new monitor has lost nothing.                                         *)
LEMMA NoHistoryCounts == NoHistory \in Histories /\ CountsItsLosses(NoHistory)
<1>1. Lost(<<>>) = {} /\ Losses(<<>>) = 0
  BY FS_EmptySet DEF Lost, Losses
<1>2. QED
  BY <1>1, LengthIsPositive, EmptySeq DEF NoHistory, Histories, CountsItsLosses

-------------------------------------------------------------------------------
(* What links the client, the connections and the server.                  *)

(* The server keeps its end while the client has its own open.             *)
Held == sock # None => slot[sock] # "free"

(* Before the login nothing but the request for it is on the way.          *)
Greeted ==
    sock # None /\ slot[sock] \in {"waiting", "connected"} =>
        /\ pc \in {"greeting", "result"}
        /\ \A m \in Range(down[sock]) : m.kind = "required"

(* A monitor the server is configured with.                                *)
Configured(name, target) ==
    \E i \in DOMAIN config : config[i] = [name |-> name, target |-> target]

(* After it, the monitors on the way are those configured.                 *)
Welcomed ==
    sock # None /\ slot[sock] = "authed" =>
        \A m \in Range(down[sock]) : m.kind = "monitor" => Configured(m.name, m.target)

(* Python has forgotten its monitors when it logs in.                      *)
Forgotten == program = "python" /\ pc # "stream" => servers = NothingListed

Connected == Held /\ Greeted /\ Welcomed /\ Forgotten /\ MonitorsOfSession

(* Every worker, of an entry that is listed or was, counts its losses.     *)
Counted ==
    /\ \A n \in Names : CountsItsLosses(online[n])
    /\ \A w \in Workers : stale[w] # None => CountsItsLosses(stale[w].done)

Reported == Counted /\ RatesOfHistory

IInv == TypeOK /\ Reported /\ Connected

(* The part of the types that is about entries and workers.                *)
Typed ==
    /\ servers \in [Names -> Targets \cup {None}]
    /\ online \in [Names -> Histories]
    /\ rate \in [Names -> Rates]
    /\ stale \in [Workers -> OldWorkers \cup {None}]

(* What most steps need of the constants.                                  *)
LEMMA LinkConstants ==
    /\ None \notin Conns /\ None \notin Targets
    /\ Configs \subseteq Seq([name : Names, target : Targets])
BY LinkAssumption DEF LinkAssumption

USE LinkConstants

(* A worker that is followed is none that is not.                          *)
LEMMA NoneIsNoWorker == None \notin OldWorkers
BY LinkAssumption DEF LinkAssumption, OldWorkers

(* Steps that leave entries and workers alone.                             *)
LEMMA SameMonitors ==
    ASSUME IInv, UNCHANGED <<program, monitors>>
    PROVE  Typed' /\ Reported' /\ servers' = servers
<1>1. UNCHANGED <<program, servers, online, rate, stale>>
  BY DEF monitors
<1>2. Typed'
  BY <1>1 DEF IInv, TypeOK, Typed
<1>3. Counted'
  BY <1>1 DEF IInv, Reported, Counted
<1>4. RatesOfHistory'
  BY <1>1 DEF IInv, Reported, RatesOfHistory, Writers
<1>5. QED
  BY <1>1, <1>2, <1>3, <1>4 DEF Reported

-------------------------------------------------------------------------------
(* Messages.                                                               *)

(* The messages the server has names for.                                  *)
LEMMA ServerMessages ==
    /\ Required \in Messages /\ Success \in Messages
    /\ Refused \in Messages /\ Family \in Messages
    /\ <<Required>> \in Seq(Messages) /\ <<Refused>> \in Seq(Messages)
    /\ <<>> \in Seq(Messages)
    /\ \A m \in [name : Names, target : Targets] : Monitor(m) \in Messages
BY DEF Messages, Required, Success, Refused, Family, Monitor

(* A message behind others adds itself.                                    *)
LEMMA RangeOfConcat ==
    ASSUME NEW S, NEW q \in Seq(S), NEW r \in Seq(S)
    PROVE  q \o r \in Seq(S) /\ Range(q \o r) \subseteq Range(q) \cup Range(r)
<1>1. /\ q \o r \in Seq(S) /\ Len(q \o r) = Len(q) + Len(r)
      /\ Len(q) \in Nat /\ Len(r) \in Nat
      /\ \A i \in 1 .. Len(q) + Len(r) : (q \o r)[i] = IF i <= Len(q) THEN q[i] ELSE r[i - Len(q)]
  BY ConcatProperties
<1>2. DOMAIN (q \o r) = 1 .. Len(q) + Len(r) /\ DOMAIN q = 1 .. Len(q) /\ DOMAIN r = 1 .. Len(r)
  BY <1>1, LenProperties
<1>3. ASSUME NEW i \in 1 .. Len(q) + Len(r)
      PROVE  (q \o r)[i] \in Range(q) \cup Range(r)
  <2>1. CASE i <= Len(q)
    BY <1>1, <1>2, <2>1 DEF Range
  <2>2. CASE ~(i <= Len(q))
    <3>1. i - Len(q) \in DOMAIN r
      BY <1>1, <1>2, <2>2
    <3>2. QED
      BY <1>1, <2>2, <3>1 DEF Range
  <2>3. QED
    BY <2>1, <2>2
<1>4. QED
  BY <1>1, <1>2, <1>3 DEF Range

(* What is read and what is left was there.                                *)
LEMMA RangeOfParts ==
    ASSUME NEW S, NEW q \in Seq(S), NEW k \in 1 .. Len(q)
    PROVE  /\ SubSeq(q, 1, k) \in Seq(S) /\ Range(SubSeq(q, 1, k)) \subseteq Range(q)
           /\ Len(SubSeq(q, 1, k)) = k
           /\ SubSeq(q, k + 1, Len(q)) \in Seq(S)
           /\ Range(SubSeq(q, k + 1, Len(q))) \subseteq Range(q)
<1>1. Len(q) \in Nat /\ DOMAIN q = 1 .. Len(q) /\ \A i \in 1 .. Len(q) : q[i] \in S
  BY LenProperties, ElementOfSeq
<1>2. /\ SubSeq(q, 1, k) \in Seq(S) /\ Len(SubSeq(q, 1, k)) = k
      /\ \A i \in 1 .. k : SubSeq(q, 1, k)[i] = q[i]
  <2>1. \A i \in 1 .. k : q[i] \in S
    BY <1>1
  <2>2. /\ SubSeq(q, 1, k) \in Seq(S)
        /\ Len(SubSeq(q, 1, k)) = IF 1 <= k THEN k - 1 + 1 ELSE 0
        /\ \A i \in 1 .. k - 1 + 1 : SubSeq(q, 1, k)[i] = q[1 + i - 1]
    BY <2>1, <1>1, SubSeqProperties
  <2>3. QED
    BY <2>2, <1>1
<1>3. /\ SubSeq(q, k + 1, Len(q)) \in Seq(S)
      /\ Len(SubSeq(q, k + 1, Len(q))) = Len(q) - k
      /\ \A i \in 1 .. Len(q) - k : SubSeq(q, k + 1, Len(q))[i] = q[k + i]
  <2>1. \A i \in k + 1 .. Len(q) : q[i] \in S
    BY <1>1
  <2>2. /\ SubSeq(q, k + 1, Len(q)) \in Seq(S)
        /\ Len(SubSeq(q, k + 1, Len(q))) =
              IF k + 1 <= Len(q) THEN Len(q) - (k + 1) + 1 ELSE 0
        /\ \A i \in 1 .. Len(q) - (k + 1) + 1 :
              SubSeq(q, k + 1, Len(q))[i] = q[k + 1 + i - 1]
    BY <2>1, <1>1, SubSeqProperties
  <2>3. /\ k \in Nat /\ k <= Len(q)
        /\ Len(q) - (k + 1) + 1 = Len(q) - k
        /\ \A i \in 1 .. Len(q) - k : k + 1 + i - 1 = k + i
    BY <1>1
  <2>4. Len(SubSeq(q, k + 1, Len(q))) = Len(q) - k
    <3>1. CASE k + 1 <= Len(q)
      BY <3>1, <2>2, <2>3
    <3>2. CASE ~(k + 1 <= Len(q))
      <4>1. \A n, j \in Nat : j <= n /\ ~(j + 1 <= n) => n - j = 0
        OBVIOUS
      <4>2. Len(q) - k = 0
        BY <3>2, <4>1, <2>3, <1>1
      <4>3. QED
        BY <3>2, <4>2, <2>2
    <3>3. QED
      BY <3>1, <3>2
  <2>5. \A i \in 1 .. Len(q) - k : SubSeq(q, k + 1, Len(q))[i] = q[k + i]
    BY <2>2, <2>3
  <2>6. QED
    BY <2>2, <2>4, <2>5
<1>4. /\ DOMAIN SubSeq(q, 1, k) = 1 .. k
      /\ DOMAIN SubSeq(q, k + 1, Len(q)) = 1 .. Len(q) - k
  BY <1>2, <1>3, LenProperties
<1>5. Range(SubSeq(q, 1, k)) \subseteq Range(q)
  BY <1>1, <1>2, <1>4 DEF Range
<1>6. Range(SubSeq(q, k + 1, Len(q))) \subseteq Range(q)
  <2>1. \A i \in 1 .. Len(q) - k : k + i \in DOMAIN q
    BY <1>1
  <2>2. QED
    BY <2>1, <1>3, <1>4 DEF Range
<1>7. QED
  BY <1>2, <1>3, <1>5, <1>6

(* The welcome holds the monitors configured.                              *)
LEMMA WelcomeIsConfigured ==
    ASSUME TypeOK
    PROVE  /\ Welcome \in Seq(Messages)
           /\ \A m \in Range(Welcome) : m.kind = "monitor" => Configured(m.name, m.target)
<1> DEFINE list == [i \in DOMAIN config |-> Monitor(config[i])]
<1>1. /\ config \in Seq([name : Names, target : Targets])
      /\ Len(config) \in Nat /\ DOMAIN config = 1 .. Len(config)
      /\ \A i \in DOMAIN config : config[i] \in [name : Names, target : Targets]
  <2>1. config \in Seq([name : Names, target : Targets])
    BY DEF TypeOK
  <2>2. Len(config) \in Nat /\ DOMAIN config = 1 .. Len(config)
    BY <2>1, LenProperties
  <2>3. \A i \in 1 .. Len(config) : config[i] \in [name : Names, target : Targets]
    BY <2>1, ElementOfSeq
  <2>4. QED
    BY <2>1, <2>2, <2>3
<1>2. list \in Seq(Messages)
  <2>1. \A i \in DOMAIN config : Monitor(config[i]) \in Messages
    BY <1>1, ServerMessages
  <2>2. list \in [1 .. Len(config) -> Messages]
    BY <1>1, <2>1
  <2>3. QED
    BY <1>1, <2>2, SeqDef
<1>3. <<Success, Family>> \in Seq(Messages)
  BY ServerMessages
<1>4. Range(list) \subseteq {Monitor(config[i]) : i \in DOMAIN config}
  BY DEF Range
<1>5. Range(<<Success, Family>>) \subseteq {Success, Family}
  BY DEF Range
<1> HIDE DEF list
<1>6. Welcome \in Seq(Messages) /\ Range(Welcome) \subseteq Range(<<Success, Family>>) \cup Range(list)
  BY <1>2, <1>3, RangeOfConcat DEF Welcome, list
<1>7. ASSUME NEW m \in Range(Welcome), m.kind = "monitor"
      PROVE  Configured(m.name, m.target)
  <2>1. m # Success /\ m # Family
    BY <1>7 DEF Success, Family
  <2>2. PICK i \in DOMAIN config : m = Monitor(config[i])
    BY <2>1, <1>4, <1>5, <1>6
  <2>3. config[i] = [name |-> m.name, target |-> m.target]
    BY <2>2, <1>1 DEF Monitor
  <2>4. QED
    BY <2>3 DEF Configured
<1>8. QED
  BY <1>6, <1>7

-------------------------------------------------------------------------------
(* Sending.                                                                *)

Lines == {"login", "update", "fin"}

(* Nothing sent is a sequence of lines.                                    *)
LEMMA NoLines == <<>> \in Seq({"login", "update", "fin"})
BY EmptySeq

(* What is sent to the server is added to what it has not read, or lost.   *)
LEMMA SentToServer ==
    ASSUME TypeOK, NEW c \in Conns, NEW line \in Lines, ToServer(c, line)
    PROVE  up' \in [Conns -> Seq(Lines)]
<1>1. up \in [Conns -> Seq(Lines)]
  BY DEF TypeOK, Lines
<1>2. Append(up[c], line) \in Seq(Lines)
  BY <1>1, AppendProperties
<1>3. QED
  BY <1>1, <1>2 DEF ToServer

(* What is sent to the client is added to what it has not read, or lost.   *)
LEMMA SentToClient ==
    ASSUME TypeOK, NEW c \in Conns, NEW messages \in Seq(Messages), ToClient(c, messages)
    PROVE  /\ down' \in [Conns -> Seq(Messages)]
           /\ sock # c => down' = down
           /\ sock = c => Range(down'[sock]) \subseteq Range(down[sock]) \cup Range(messages)
<1>1. /\ down \in [Conns -> Seq(Messages)] /\ down[c] \in Seq(Messages)
      /\ down' = IF intact[c] /\ sock = c THEN [down EXCEPT ![c] = down[c] \o messages] ELSE down
  BY DEF TypeOK, ToClient
<1>2. /\ down[c] \o messages \in Seq(Messages)
      /\ Range(down[c] \o messages) \subseteq Range(down[c]) \cup Range(messages)
  BY <1>1, RangeOfConcat
<1>3. QED
  BY <1>1, <1>2

-------------------------------------------------------------------------------
(* The server's end.                                                       *)

(* A drop closes one end; what the client has read is not touched.         *)
LEMMA StepDrop ==
    ASSUME IInv, NEW c \in Conns, NEW messages \in Seq(Messages), Drop(c, messages),
           UNCHANGED <<program, client, intact, config>>,
           banned' \in BOOLEAN, calm' \in BOOLEAN
    PROVE  IInv'
<1>1. /\ slot' = [slot EXCEPT ![c] = Dropped(c)]
      /\ up' = [up EXCEPT ![c] = <<>>]
      /\ ToClient(c, messages)
      /\ UNCHANGED <<program, pc, sock, monitors, intact, config>>
  BY DEF Drop, client
<1>2. Dropped(c) = IF sock = c THEN "dropped" ELSE "free"
  BY DEF Dropped
<1>3. down' \in [Conns -> Seq(Messages)] /\ (sock # c => down' = down)
  BY <1>1, SentToClient DEF IInv
<1>4. TypeOK'
  <2>1. slot' \in [Conns -> {"free", "waiting", "connected", "authed", "dropped"}]
    BY <1>1, <1>2 DEF IInv, TypeOK
  <2>2. up' \in [Conns -> Seq({"login", "update", "fin"})]
    BY <1>1 DEF IInv, TypeOK
  <2>3. QED
    BY <1>1, <1>3, <2>1, <2>2, SameMonitors DEF IInv, TypeOK, Typed
<1>5. Reported' /\ servers' = servers
  BY <1>1, SameMonitors
<1>6. Connected'
  <2>1. CASE sock = c
    <3>1. c # None /\ slot'[sock'] = "dropped"
      BY <2>1, <1>1, <1>2 DEF IInv, TypeOK
    <3>2. QED
      BY <3>1, <1>1, <1>5 DEF IInv, Connected, Held, Greeted, Welcomed, Forgotten,
                              MonitorsOfSession, NothingListed
  <2>2. CASE sock # c
    <3>1. sock # None => slot'[sock] = slot[sock]
      BY <2>2, <1>1 DEF IInv, TypeOK
    <3>2. Held' /\ Greeted' /\ Welcomed' /\ Forgotten'
      BY <2>2, <3>1, <1>1, <1>3, <1>5 DEF IInv, Connected, Held, Greeted, Welcomed, Forgotten,
                                    Configured, NothingListed
    <3>3. pc = "stream" => sock # None
      BY DEF IInv, TypeOK
    <3>4. MonitorsOfSession'
      BY <3>1, <3>3, <1>1, <1>5 DEF IInv, Connected, MonitorsOfSession
    <3>5. QED
      BY <3>2, <3>4 DEF Connected
  <2>3. QED
    BY <2>1, <2>2
<1>7. QED
  BY <1>4, <1>5, <1>6 DEF IInv

(* A connection is accepted, or refused because of a ban.                  *)
LEMMA StepAccept ==
    ASSUME IInv, NEW c \in Conns, Accept(c)
    PROVE  IInv'
<1>1. /\ slot[c] = "waiting"
      /\ UNCHANGED <<program, client, intact, config, banned, calm>>
      /\ UNCHANGED <<program, pc, sock, monitors, intact, config, banned, calm>>
  BY DEF Accept, client
<1>2. CASE banned
  <2>1. Drop(c, <<Refused>>) /\ banned' \in BOOLEAN /\ calm' \in BOOLEAN
    BY <1>1, <1>2 DEF Accept, IInv, TypeOK
  <2>2. QED
    BY <1>1, <2>1, StepDrop, ServerMessages
<1>3. CASE ~banned
  <2>1. /\ slot' = [slot EXCEPT ![c] = "connected"]
        /\ ToClient(c, <<Required>>)
        /\ up' = up
    BY <1>3 DEF Accept
  <2>2. /\ down' \in [Conns -> Seq(Messages)]
        /\ sock # c => down' = down
        /\ sock = c => Range(down'[sock]) \subseteq Range(down[sock]) \cup Range(<<Required>>)
    BY <2>1, SentToClient, ServerMessages DEF IInv
  <2>3. Range(<<Required>>) = {Required} /\ Required.kind = "required"
    BY DEF Range, Required
  <2>4. TypeOK'
    BY <1>1, <2>1, <2>2, SameMonitors DEF IInv, TypeOK, Typed
  <2>5. sock # c /\ sock # None => slot'[sock] = slot[sock]
    BY <2>1 DEF IInv, TypeOK
  <2>6. slot'[c] = "connected"
    BY <2>1 DEF IInv, TypeOK
  <2>7. Held' /\ Welcomed' /\ Forgotten'
    BY <1>1, <2>2, <2>5, <2>6, SameMonitors DEF IInv, Connected, Held, Welcomed, Forgotten, Configured,
                                  NothingListed
  <2>8. Greeted'
    <3>1. CASE sock = c
      BY <3>1, <1>1, <2>2, <2>3 DEF IInv, Connected, Greeted
    <3>2. CASE sock # c
      BY <3>2, <1>1, <2>2, <2>5 DEF IInv, Connected, Greeted
    <3>3. QED
      BY <3>1, <3>2
  <2>9. MonitorsOfSession'
    <3>1. pc = "stream" => sock # None
      BY DEF IInv, TypeOK
    <3>2. QED
      BY <1>1, <2>5, <2>6, <3>1, SameMonitors DEF IInv, Connected, MonitorsOfSession
  <2>10. Reported'
    BY <1>1, SameMonitors
  <2>11. QED
    BY <2>4, <2>7, <2>8, <2>9, <2>10 DEF IInv, Connected
<1>4. QED
  BY <1>2, <1>3

(* The line a connection has sent is taken.                                *)
LEMMA LineTaken ==
    ASSUME TypeOK, NEW c \in Conns, up[c] # <<>>
    PROVE  [up EXCEPT ![c] = Tail(@)] \in [Conns -> Seq({"login", "update", "fin"})]
<1>1. Tail(up[c]) \in Seq({"login", "update", "fin"})
  BY HeadTailProperties DEF TypeOK
<1>2. QED
  BY <1>1 DEF TypeOK

(* A login is refused, or answered with the configured monitors.           *)
LEMMA StepAuthenticate ==
    ASSUME IInv, NEW c \in Conns, Authenticate(c)
    PROVE  IInv'
<1>1. /\ slot[c] = "connected" /\ up[c] # <<>>
      /\ UNCHANGED <<program, client, intact, config, banned, calm>>
      /\ UNCHANGED <<program, pc, sock, monitors, intact, config, banned, calm>>
  BY DEF Authenticate, client
<1>2. CASE Online
  <2>1. Drop(c, <<Refused>>) /\ banned' \in BOOLEAN /\ calm' \in BOOLEAN
    BY <1>1, <1>2 DEF Authenticate, IInv, TypeOK
  <2>2. QED
    BY <1>1, <2>1, StepDrop, ServerMessages
<1>3. CASE ~Online
  <2>1. /\ slot' = [slot EXCEPT ![c] = "authed"]
        /\ ToClient(c, Welcome)
        /\ up' = [up EXCEPT ![c] = Tail(@)]
    BY <1>3 DEF Authenticate
  <2>2. /\ down' \in [Conns -> Seq(Messages)]
        /\ sock # c => down' = down
        /\ sock = c => Range(down'[sock]) \subseteq Range(down[sock]) \cup Range(Welcome)
    BY <2>1, SentToClient, WelcomeIsConfigured DEF IInv
  <2>3. TypeOK'
    BY <1>1, <2>1, <2>2, LineTaken, SameMonitors DEF IInv, TypeOK, Typed
  <2>4. sock # c /\ sock # None => slot'[sock] = slot[sock]
    BY <2>1 DEF IInv, TypeOK
  <2>5. slot'[c] = "authed"
    BY <2>1 DEF IInv, TypeOK
  <2>6. Held' /\ Greeted' /\ Forgotten'
    BY <1>1, <2>2, <2>4, <2>5, SameMonitors DEF IInv, Connected, Held, Greeted, Forgotten, NothingListed
  <2>7. sock = c => pc # "stream" /\ \A m \in Range(down[sock]) : m.kind = "required"
    BY <1>1 DEF IInv, Connected, Greeted, TypeOK
  <2>8. Welcomed'
    <3>1. CASE sock = c
      <4>1. \A m \in Range(down'[sock]) : m.kind = "monitor" => Configured(m.name, m.target)
        BY <3>1, <2>2, <2>7, WelcomeIsConfigured DEF IInv
      <4>2. QED
        BY <4>1, <1>1 DEF Welcomed, Configured
    <3>2. CASE sock # c
      BY <3>2, <1>1, <2>2, <2>4 DEF IInv, Connected, Welcomed, Configured
    <3>3. QED
      BY <3>1, <3>2
  <2>9. MonitorsOfSession'
    <3>1. pc = "stream" => sock # None
      BY DEF IInv, TypeOK
    <3>2. QED
      BY <1>1, <2>4, <2>7, <3>1, SameMonitors DEF IInv, Connected, MonitorsOfSession
  <2>10. Reported'
    BY <1>1, SameMonitors
  <2>11. QED
    BY <2>3, <2>6, <2>8, <2>9, <2>10 DEF IInv, Connected
<1>4. QED
  BY <1>2, <1>3

(* Nothing else a server does concerns what a client works on.             *)
LEMMA StepServe ==
    ASSUME IInv, NEW c \in Conns, Serve(c)
    PROVE  IInv'
<1>1. CASE HandleMessage(c)
  <2>1. UNCHANGED <<program, pc, sock, monitors, intact, down, slot, config, banned, calm>>
    BY <1>1 DEF HandleMessage, client
  <2>2. Typed' /\ Reported' /\ servers' = servers
    BY <2>1, SameMonitors
  <2>3. TypeOK'
    BY <1>1, <2>1, <2>2, LineTaken DEF HandleMessage, IInv, TypeOK, Typed
  <2>4. QED
    BY <2>1, <2>2, <2>3 DEF IInv, Connected, Held, Greeted, Welcomed, Forgotten,
                            MonitorsOfSession, Configured, NothingListed
<1>2. CASE HungUp(c)
  <2>1. /\ Drop(c, <<>>) /\ banned' \in BOOLEAN /\ calm' \in BOOLEAN
        /\ UNCHANGED <<program, client, intact, config>>
    BY <1>2 DEF HungUp, IInv, TypeOK
  <2>2. QED
    BY <2>1, StepDrop, ServerMessages
<1>3. CASE AuthTimeout(c)
  <2>1. /\ Drop(c, <<Refused>>) /\ banned' \in BOOLEAN /\ calm' \in BOOLEAN
        /\ UNCHANGED <<program, client, intact, config>>
    BY <1>3 DEF AuthTimeout, IInv, TypeOK
  <2>2. QED
    BY <2>1, StepDrop, ServerMessages
<1>4. CASE Timeout(c)
  <2>1. /\ Drop(c, <<Refused>>) /\ banned' \in BOOLEAN /\ calm' \in BOOLEAN
        /\ UNCHANGED <<program, client, intact, config>>
    BY <1>4 DEF Timeout, IInv, TypeOK
  <2>2. QED
    BY <2>1, StepDrop, ServerMessages
<1>5. QED
  BY <1>1, <1>2, <1>3, <1>4, StepAccept, StepAuthenticate DEF Serve

-------------------------------------------------------------------------------
(* The client's main thread.                                               *)

(* New entries have workers of their own, whose histories are empty; the   *)
(* others keep what they have counted.                                     *)
LEMMA Relisted ==
    ASSUME TypeOK, Reported, NEW entries \in [Names -> Targets \cup {None}], Relist(entries)
    PROVE  Typed' /\ Reported' /\ servers' = entries
<1>1. /\ servers' = entries
      /\ online' = [n \in Names |-> NoHistory]
      /\ rate' = [n \in Names |-> NoRate]
      /\ Leave
  BY DEF Relist
<1>2. PICK left \in [Workers -> Orphans \cup {None}] :
        stale' = [w \in Workers |-> IF left[w] # None THEN left[w] ELSE stale[w]]
  BY <1>1 DEF Leave
<1>3. \A o \in Orphans : o \in OldWorkers /\ CountsItsLosses(o.done)
  BY DEF Orphans, OldWorkers, TypeOK, Reported, Counted
<1>4. \A w \in Workers :
        /\ stale'[w] \in OldWorkers \cup {None}
        /\ stale'[w] # None => CountsItsLosses(stale'[w].done)
  <2>1. TAKE w \in Workers
  <2>2. CASE left[w] = None
    BY <1>2, <2>2 DEF TypeOK, Reported, Counted
  <2>3. CASE left[w] # None
    <3>1. left[w] \in Orphans /\ stale'[w] = left[w]
      BY <1>2, <2>3
    <3>2. QED
      BY <3>1, <1>3
  <2>4. QED
    BY <2>2, <2>3
<1>5. stale' \in [Workers -> OldWorkers \cup {None}]
  BY <1>2, <1>4
<1>6. NoRate \in Rates
  BY DEF NoRate, Rates
<1>7. Typed'
  BY <1>1, <1>5, <1>6, NoHistoryCounts DEF Typed
<1>8. Counted'
  BY <1>1, <1>4, NoHistoryCounts DEF Counted
<1>9. RatesOfHistory'
  BY <1>1 DEF RatesOfHistory
<1>10. QED
  BY <1>1, <1>7, <1>8, <1>9 DEF Reported

(* Without entries there are no targets.                                   *)
LEMMA NothingIsListed == NothingListed \in [Names -> Targets \cup {None}]
BY DEF NothingListed

(* The client closes its end and waits.                                    *)
LEMMA StepHangup ==
    ASSUME IInv, sock # None, Hangup
    PROVE  IInv'
<1>1. /\ pc' = "pause" /\ sock' = None
      /\ slot' = [slot EXCEPT ![sock] = IF @ = "dropped" THEN "free" ELSE @]
      /\ down' = [down EXCEPT ![sock] = <<>>]
      /\ UNCHANGED <<program, intact, config, banned, calm>>
  BY DEF Hangup
<1>2. sock \in Conns
  BY DEF IInv, TypeOK
<1>3. up' \in [Conns -> Seq({"login", "update", "fin"})]
  BY <1>2, SentToServer DEF Hangup, IInv, TypeOK, Lines
<1>4. Typed' /\ Reported' /\ (program = "python" => servers' = NothingListed)
  <2>1. CASE program = "python"
    BY <2>1, Relisted, NothingIsListed DEF Hangup, IInv
  <2>2. CASE program # "python"
    BY <2>2, <1>1, SameMonitors DEF Hangup
  <2>3. QED
    BY <2>1, <2>2
<1>5. /\ slot' \in [Conns -> {"free", "waiting", "connected", "authed", "dropped"}]
      /\ down' \in [Conns -> Seq(Messages)]
  BY <1>1, ServerMessages DEF IInv, TypeOK
<1>6. TypeOK'
  BY <1>1, <1>3, <1>4, <1>5 DEF IInv, TypeOK, Typed, Reads
<1>7. Connected'
  BY <1>1, <1>4 DEF Connected, Held, Greeted, Welcomed, Forgotten, MonitorsOfSession, NothingListed
<1>8. QED
  BY <1>4, <1>6, <1>7 DEF IInv

(* A connection is made, or is not, or the wait is over.                   *)
LEMMA StepDial ==
    ASSUME IInv, Dial \/ DialFails \/ Pause
    PROVE  IInv'
<1>1. sock = None
  BY DEF IInv, TypeOK, Dial, DialFails, Pause, Reads
<1>2. CASE Dial
  <2>1. PICK c \in Conns :
          /\ pc = "dial"
          /\ pc' = "greeting" /\ sock' = c
          /\ slot' = [slot EXCEPT ![c] = "waiting"]
          /\ intact' = [intact EXCEPT ![c] = TRUE]
          /\ down' = [down EXCEPT ![c] = <<>>]
          /\ UNCHANGED <<program, monitors, up, config, banned, calm>>
    BY <1>2 DEF Dial
  <2>2. TypeOK'
    BY <2>1, ServerMessages, SameMonitors DEF IInv, TypeOK, Typed, Reads
  <2>3. slot'[sock'] = "waiting" /\ Range(down'[sock']) = {}
    BY <2>1 DEF IInv, TypeOK, Range
  <2>4. Connected'
    BY <2>1, <2>3, SameMonitors DEF IInv, Connected, Held, Greeted, Welcomed, Forgotten,
                                    MonitorsOfSession, NothingListed
  <2>5. QED
    BY <2>1, <2>2, <2>4, SameMonitors DEF IInv
<1>3. CASE DialFails
  <2>1. /\ pc' = "pause"
        /\ UNCHANGED <<program, sock, slot, config, banned, intact, down, up, calm>>
    BY <1>3 DEF DialFails, link, server
  <2>2. Typed' /\ Reported' /\ (program = "python" => servers' = NothingListed)
    <3>1. CASE program = "python"
      BY <1>3, <3>1, Relisted, NothingIsListed DEF DialFails, IInv
    <3>2. CASE program # "python"
      BY <1>3, <2>1, <3>2, SameMonitors DEF DialFails
    <3>3. QED
      BY <3>1, <3>2
  <2>3. TypeOK'
    BY <1>1, <2>1, <2>2 DEF IInv, TypeOK, Typed, Reads
  <2>4. Connected'
    BY <1>1, <2>1, <2>2 DEF Connected, Held, Greeted, Welcomed, Forgotten, MonitorsOfSession,
                            NothingListed
  <2>5. QED
    BY <2>2, <2>3, <2>4 DEF IInv
<1>4. CASE Pause
  <2>1. /\ pc = "pause" /\ pc' = "dial"
        /\ UNCHANGED <<program, sock, monitors, slot, config, banned, intact, down, up, calm>>
    BY <1>4 DEF Pause, link, server
  <2>2. TypeOK'
    BY <2>1, SameMonitors DEF IInv, TypeOK, Typed, Reads
  <2>3. QED
    BY <1>1, <2>1, <2>2, SameMonitors DEF IInv, Connected, Held, Greeted, Welcomed, Forgotten,
                                          MonitorsOfSession, NothingListed
<1>5. QED
  BY <1>2, <1>3, <1>4

(* A read takes messages from the front.                                   *)
LEMMA ChunkRead ==
    ASSUME TypeOK, sock # None, NEW chunk \in Chunks
    PROVE  /\ chunk \in Seq(Messages) /\ Range(chunk) \subseteq Range(down[sock])
           /\ Consume(chunk) => /\ down' \in [Conns -> Seq(Messages)]
                               /\ Range(down'[sock]) \subseteq Range(down[sock])
<1>1. sock \in Conns /\ down[sock] \in Seq(Messages)
  BY DEF TypeOK
<1>2. PICK k \in 1 .. Len(down[sock]) : chunk = SubSeq(down[sock], 1, k)
  BY DEF Chunks
<1>3. /\ chunk \in Seq(Messages) /\ Range(chunk) \subseteq Range(down[sock]) /\ Len(chunk) = k
      /\ SubSeq(down[sock], k + 1, Len(down[sock])) \in Seq(Messages)
      /\ Range(SubSeq(down[sock], k + 1, Len(down[sock]))) \subseteq Range(down[sock])
  BY <1>1, <1>2, RangeOfParts
<1>4. ASSUME Consume(chunk)
      PROVE  down' \in [Conns -> Seq(Messages)] /\ Range(down'[sock]) \subseteq Range(down[sock])
  <2> DEFINE rest == SubSeq(down[sock], k + 1, Len(down[sock]))
  <2>1. down' = [down EXCEPT ![sock] = rest]
    BY <1>3, <1>4 DEF Consume
  <2>2. rest \in Seq(Messages) /\ Range(rest) \subseteq Range(down[sock])
    BY <1>3
  <2> HIDE DEF rest
  <2>3. down \in [Conns -> Seq(Messages)]
    BY DEF TypeOK
  <2>4. down'[sock] = rest
    BY <1>1, <2>1, <2>3
  <2>5. QED
    BY <1>1, <2>1, <2>2, <2>3, <2>4
<1>5. QED
  BY <1>3, <1>4

(* What a chunk contains is one of its messages.                           *)
LEMMA Contained ==
    ASSUME NEW chunk, NEW message, Contains(chunk, message)
    PROVE  message \in Range(chunk)
BY DEF Contains, Range

(* Between reads, only the state of the client's thread and what it has    *)
(* read change.                                                            *)
LEMMA StepRead ==
    ASSUME IInv, pc \in Reads, NEW chunk \in Chunks, Consume(chunk),
           pc' \in Reads \cup {"stream"},
           slot[sock] \in {"waiting", "connected"} => pc' \in {"greeting", "result"},
           program = "python" /\ pc' # "stream" => servers' = NothingListed,
           Typed', Reported',
           MonitorsOfSession',
           up' \in [Conns -> Seq({"login", "update", "fin"})],
           UNCHANGED <<program, sock, slot, intact, config, banned, calm>>
    PROVE  IInv'
<1>1. sock # None /\ sock \in Conns
  BY DEF IInv, TypeOK
<1>2. down' \in [Conns -> Seq(Messages)] /\ Range(down'[sock]) \subseteq Range(down[sock])
  BY <1>1, ChunkRead DEF IInv
<1>3. TypeOK'
  BY <1>1, <1>2 DEF IInv, TypeOK, Typed, Reads
<1>4. Held' /\ Greeted' /\ Welcomed' /\ Forgotten'
  BY <1>1, <1>2 DEF IInv, Connected, Held, Greeted, Welcomed, Forgotten, Configured, NothingListed
<1>5. QED
  BY <1>3, <1>4 DEF IInv, Connected

(* The request for the login is answered.                                  *)
LEMMA StepReadGreeting ==
    ASSUME IInv, ReadGreeting
    PROVE  IInv'
<1>1. pc = "greeting" /\ pc \in Reads /\ sock # None /\ sock \in Conns
  BY DEF ReadGreeting, IInv, TypeOK, Reads
<1>2. PICK chunk \in Chunks :
        IF Contains(chunk, Required)
        THEN /\ pc' = "result"
             /\ Consume(chunk)
             /\ IF slot[sock] = "dropped" THEN UNCHANGED up ELSE ToServer(sock, "login")
             /\ UNCHANGED <<program, sock, monitors, slot, intact, config, banned, calm>>
        ELSE Hangup
  BY DEF ReadGreeting
<1>3. CASE Contains(chunk, Required)
  <2>1. up' \in [Conns -> Seq({"login", "update", "fin"})]
    BY <1>1, <1>2, <1>3, SentToServer DEF IInv, TypeOK, Lines
  <2>2. /\ Typed' /\ Reported' /\ MonitorsOfSession'
        /\ program = "python" /\ pc' # "stream" => servers' = NothingListed
    BY <1>1, <1>2, <1>3, SameMonitors DEF IInv, MonitorsOfSession, Connected, Forgotten
  <2>3. pc' \in Reads \cup {"stream"} /\ pc' \in {"greeting", "result"}
    BY <1>2, <1>3 DEF Reads
  <2>4. QED
    BY <1>1, <1>2, <1>3, <2>1, <2>2, <2>3, StepRead
<1>4. CASE ~Contains(chunk, Required)
  BY <1>1, <1>2, <1>4, StepHangup
<1>5. QED
  BY <1>3, <1>4

(* The result of the login is only there when the server has given it.     *)
LEMMA StepReadResult ==
    ASSUME IInv, ReadResult
    PROVE  IInv'
<1>1. pc = "result" /\ pc \in Reads /\ sock # None /\ sock \in Conns
  BY DEF ReadResult, IInv, TypeOK, Reads
<1>2. PICK chunk \in Chunks :
        IF Contains(chunk, Success)
        THEN /\ pc' = AfterLogin(chunk)
             /\ Consume(chunk)
             /\ UNCHANGED <<program, sock, monitors, up, slot, intact, config, banned, calm>>
        ELSE Hangup
  BY DEF ReadResult
<1>3. CASE Contains(chunk, Success)
  <2>1. slot[sock] \notin {"waiting", "connected"}
    <3>1. Success \in Range(down[sock])
      BY <1>1, <1>3, Contained, ChunkRead DEF IInv
    <3>2. Success.kind # "required"
      BY DEF Success
    <3>3. QED
      BY <1>1, <3>1, <3>2 DEF IInv, Connected, Greeted
  <2>2. /\ pc' \in {"stream", "family"}
        /\ pc' = "stream" => program = "python"
    BY <1>2, <1>3 DEF AfterLogin
  <2>3. program = "python" => servers = NothingListed
    BY <1>1 DEF IInv, Connected, Forgotten
  <2>4. /\ Typed' /\ Reported'
        /\ program = "python" /\ pc' # "stream" => servers' = NothingListed
        /\ up' \in [Conns -> Seq({"login", "update", "fin"})]
    BY <1>2, <1>3, <2>3, SameMonitors DEF IInv, TypeOK
  <2>5. MonitorsOfSession'
    BY <1>2, <1>3, <2>2, <2>3, SameMonitors DEF MonitorsOfSession, NothingListed
  <2>6. pc' \in Reads \cup {"stream"}
    BY <2>2 DEF Reads
  <2>7. QED
    BY <1>1, <1>2, <1>3, <2>1, <2>4, <2>5, <2>6, StepRead
<1>4. CASE ~Contains(chunk, Success)
  BY <1>1, <1>2, <1>4, StepHangup
<1>5. QED
  BY <1>3, <1>4

(* The entries of what was read are its monitors.                          *)
LEMMA ListedMonitors ==
    ASSUME NEW chunk \in Seq(Messages), NEW n \in Names
    PROVE  /\ Listed(chunk)[n] \in Targets \cup {None}
           /\ Listed(chunk)[n] # None =>
                 \E m \in Range(chunk) :
                     m.kind = "monitor" /\ m.name = n /\ m.target = Listed(chunk)[n]
<1> DEFINE mine == {i \in DOMAIN chunk : chunk[i].kind = "monitor" /\ chunk[i].name = n}
           last == CHOOSE i \in mine : TRUE
<1>1. Listed(chunk)[n] = IF mine = {} THEN None ELSE chunk[last].target
  BY DEF Listed
<1>2. CASE mine = {}
  BY <1>1, <1>2
<1>3. CASE mine # {}
  <2>1. last \in mine
    BY <1>3
  <2>2. chunk[last] \in Messages /\ chunk[last] \in Range(chunk)
    BY <2>1, LenProperties, ElementOfSeq DEF Range
  <2>3. chunk[last].kind = "monitor" /\ chunk[last].name = n
    BY <2>1
  <2>4. chunk[last].target \in Targets
    BY <2>2, <2>3 DEF Messages
  <2>5. QED
    BY <1>1, <1>3, <2>2, <2>3, <2>4
<1>4. QED
  BY <1>2, <1>3

(* The monitors are read behind the address family.                        *)
LEMMA StepReadFamily ==
    ASSUME IInv, ReadFamily
    PROVE  IInv'
<1>1. pc = "family" /\ pc \in Reads /\ sock # None /\ sock \in Conns
  BY DEF ReadFamily, IInv, TypeOK, Reads
<1>2. PICK chunk \in Chunks :
        IF Contains(chunk, Family)
        THEN /\ pc' = "stream"
             /\ Relist(MonitorsOf(chunk))
             /\ Consume(chunk)
             /\ UNCHANGED <<program, sock, up, slot, intact, config, banned, calm>>
        ELSE Hangup
  BY DEF ReadFamily
<1>3. CASE Contains(chunk, Family)
  <2>1. slot[sock] \notin {"waiting", "connected"}
    BY <1>1 DEF IInv, Connected, Greeted
  <2>2. chunk \in Seq(Messages) /\ Range(chunk) \subseteq Range(down[sock])
    BY <1>1, ChunkRead DEF IInv
  <2>3. MonitorsOf(chunk) \in [Names -> Targets \cup {None}]
    BY <2>2, ListedMonitors DEF MonitorsOf, Listed
  <2>4. Typed' /\ Reported' /\ servers' = Listed(chunk)
    BY <1>2, <1>3, <2>3, Relisted DEF IInv, MonitorsOf
  <2>5. MonitorsOfSession'
    <3>1. SUFFICES ASSUME slot[sock] = "authed", NEW n \in Names, Listed(chunk)[n] # None
                   PROVE  \E i \in DOMAIN config :
                              config[i] = [name |-> n, target |-> Listed(chunk)[n]]
      BY <1>2, <1>3, <2>4 DEF MonitorsOfSession
    <3>2. PICK m \in Range(chunk) :
              m.kind = "monitor" /\ m.name = n /\ m.target = Listed(chunk)[n]
      BY <3>1, <2>2, ListedMonitors
    <3>3. Configured(m.name, m.target)
      BY <1>1, <2>2, <3>1, <3>2 DEF IInv, Connected, Welcomed
    <3>4. QED
      BY <3>2, <3>3 DEF Configured
  <2>6. pc' \in Reads \cup {"stream"} /\ pc' = "stream"
    BY <1>2, <1>3
  <2>7. up' \in [Conns -> Seq({"login", "update", "fin"})]
    BY <1>2, <1>3 DEF IInv, TypeOK
  <2>8. QED
    BY <1>1, <1>2, <1>3, <2>1, <2>4, <2>5, <2>6, <2>7, StepRead
<1>4. CASE ~Contains(chunk, Family)
  BY <1>1, <1>2, <1>4, StepHangup
<1>5. QED
  BY <1>3, <1>4

(* Whatever the client's main thread does.                                 *)
LEMMA StepConnect ==
    ASSUME IInv, Connect
    PROVE  IInv'
<1>1. CASE ReadFails \/ SendFails
  <2>1. sock # None /\ Hangup
    BY <1>1 DEF ReadFails, SendFails, IInv, TypeOK
  <2>2. QED
    BY <2>1, StepHangup
<1>2. CASE SendStatus
  <2>1. /\ sock \in Conns /\ ToServer(sock, "update")
        /\ UNCHANGED <<program, pc, sock, monitors, intact, down, slot, config, banned, calm>>
    BY <1>2 DEF SendStatus, client, server, IInv, TypeOK
  <2>2. up' \in [Conns -> Seq({"login", "update", "fin"})]
    BY <2>1, SentToServer DEF IInv, Lines
  <2>3. TypeOK'
    BY <2>1, <2>2, SameMonitors DEF IInv, TypeOK, Typed
  <2>4. QED
    BY <2>1, <2>3, SameMonitors DEF IInv, Connected, Held, Greeted, Welcomed, Forgotten,
                                    MonitorsOfSession, Configured, NothingListed
<1>3. QED
  BY <1>1, <1>2, StepDial, StepReadGreeting, StepReadResult, StepReadFamily DEF Connect

-------------------------------------------------------------------------------
(* The workers, and everything around.                                     *)

(* A queue never gets shorter.                                             *)
LEMMA RecordGrows ==
    ASSUME NEW h \in Histories, CountsItsLosses(h), NEW success \in BOOLEAN
    PROVE  /\ Len(h.history) \in Nat
           /\ Len(Record(h, success).history) \in Nat
           /\ Len(Record(h, success).history) >= Len(h.history)
<1> DEFINE o == OldestLeaves(h)
<1>1. h.history \in Seq(BOOLEAN) /\ Len(h.history) \in Nat /\ Len(h.history) <= HistoryLen
  BY DEF Histories, CountsItsLosses
<1>2. o.history \in Seq(BOOLEAN) /\ Len(o.history) + 1 >= Len(h.history)
  <2>1. CASE Len(h.history) < HistoryLen
    <3>1. o = h
      BY <2>1 DEF OldestLeaves
    <3> HIDE DEF o
    <3>2. QED
      BY <3>1, <1>1
  <2>2. CASE ~(Len(h.history) < HistoryLen)
    <3>1. h.history # <<>>
      BY <2>2, LengthIsPositive
    <3>2. o.history = Tail(h.history)
      BY <2>2 DEF OldestLeaves
    <3> HIDE DEF o
    <3>3. /\ Tail(h.history) \in Seq(BOOLEAN)
          /\ Len(Tail(h.history)) = Len(h.history) - 1
      BY <3>1, <1>1, HeadTailProperties
    <3>4. QED
      BY <3>2, <3>3, <1>1
  <2>3. QED
    BY <2>1, <2>2
<1> HIDE DEF o
<1>3. Len(Append(o.history, success)) = Len(o.history) + 1 /\ Len(o.history) \in Nat
  BY <1>2, AppendProperties
<1>4. Record(h, success).history = Append(o.history, success)
  BY DEF Record, Checked, o
<1>5. QED
  BY <1>1, <1>2, <1>3, <1>4

(* The rate of a turn is its share of losses, or what it was before while  *)
(* there are too few.                                                      *)
LEMMA RatedTurn ==
    ASSUME NEW h \in Histories, NEW before \in Rates
    PROVE  /\ Rated(h, before) \in Rates
           /\ IF Len(h.history) > Enough THEN Rated(h, before) = Share(h)
              ELSE Rated(h, before) = before
<1>1. h.lostCount \in Int /\ Len(h.history) \in Nat
  BY LenProperties DEF Histories
<1>2. Share(h) \in Rates
  BY <1>1 DEF Share, Rates
<1>3. QED
  BY <1>2 DEF Rated

(* A check is recorded in the history of its monitor.                      *)
LEMMA StepCheck ==
    ASSUME IInv, NEW n \in Names, Check(n)
    PROVE  IInv'
<1>1. PICK success \in BOOLEAN :
        /\ online' = [online EXCEPT ![n] = Record(online[n], success)]
        /\ rate' = [rate EXCEPT ![n] = Rated(Record(online[n], success), rate[n])]
  BY DEF Check
<1> DEFINE turn == Record(online[n], success)
<1>2. UNCHANGED <<program, pc, sock, servers, stale, slot, config, banned, intact, down, up, calm>>
  BY DEF Check, link, server
<1>3. /\ online \in [Names -> Histories] /\ rate \in [Names -> Rates]
      /\ CountsItsLosses(online[n])
  BY DEF IInv, TypeOK, Reported, Counted
<1>4. turn \in Histories /\ CountsItsLosses(turn)
  BY <1>3, RecordCountsLosses
<1>5. /\ Len(online[n].history) \in Nat /\ Len(turn.history) \in Nat
      /\ Len(turn.history) >= Len(online[n].history)
  BY <1>3, RecordGrows
<1> HIDE DEF turn
<1>6. /\ Rated(turn, rate[n]) \in Rates
      /\ IF Len(turn.history) > Enough THEN Rated(turn, rate[n]) = Share(turn)
         ELSE Rated(turn, rate[n]) = rate[n]
  BY <1>3, <1>4, RatedTurn
<1>7. /\ online' = [online EXCEPT ![n] = turn]
      /\ rate' = [rate EXCEPT ![n] = Rated(turn, rate[n])]
  BY <1>1 DEF turn
<1>8. TypeOK'
  BY <1>2, <1>3, <1>4, <1>6, <1>7 DEF IInv, TypeOK
<1>9. Counted'
  BY <1>2, <1>3, <1>4, <1>7 DEF IInv, Reported, Counted
<1>10. RatesOfHistory'
  <2>1. SUFFICES ASSUME NEW m \in Names, servers[m] # None, rate'[m] # NoRate
                 PROVE  \E h \in Writers(m)' :
                            /\ Len(h.history) > Enough /\ CountsItsLosses(h)
                            /\ rate'[m] = Share(h)
    BY <1>2 DEF RatesOfHistory
  <2>2. /\ online'[m] \in Writers(m)'
        /\ \A h \in Writers(m) : h = online[m] \/ h \in Writers(m)'
    BY <1>2 DEF Writers
  <2>3. CASE m = n /\ Len(turn.history) > Enough
    BY <2>2, <2>3, <1>3, <1>4, <1>6, <1>7
  <2>4. CASE ~(m = n /\ Len(turn.history) > Enough)
    <3>1. rate'[m] = rate[m]
      BY <2>4, <1>3, <1>6, <1>7
    <3>2. PICK h \in Writers(m) :
            Len(h.history) > Enough /\ CountsItsLosses(h) /\ rate[m] = Share(h)
      BY <2>1, <3>1 DEF IInv, Reported, RatesOfHistory
    <3>3. h \in Writers(m)'
      <4>1. CASE m = n
        BY <4>1, <2>2, <2>4, <3>2, <1>5, LengthIsPositive
      <4>2. CASE m # n
        BY <4>2, <2>2, <1>3, <1>7
      <4>3. QED
        BY <4>1, <4>2
    <3>4. QED
      BY <3>1, <3>2, <3>3
  <2>5. QED
    BY <2>3, <2>4
<1>11. QED
  BY <1>2, <1>8, <1>9, <1>10 DEF IInv, Reported, Connected, Held, Greeted, Welcomed, Forgotten,
                                 MonitorsOfSession, Configured, NothingListed

(* A worker whose entry was replaced counts on; only Python's writes into  *)
(* the entry that has its name.                                            *)
LEMMA StepOldCheck ==
    ASSUME IInv, NEW w \in Workers, OldCheck(w)
    PROVE  IInv'
<1> DEFINE name == stale[w].name
           done == stale[w].done
<1>1. PICK success \in BOOLEAN :
        /\ stale' = [stale EXCEPT ![w].done = Record(done, success)]
        /\ rate' = IF program = "python"
                   THEN [rate EXCEPT ![name] = Rated(Record(done, success), rate[name])]
                   ELSE rate
  BY DEF OldCheck
<1> DEFINE turn == Record(done, success)
<1>2. UNCHANGED <<program, pc, sock, servers, online, slot, config, banned, intact, down, up, calm>>
  BY DEF OldCheck, link, server
<1>3. /\ stale \in [Workers -> OldWorkers \cup {None}] /\ rate \in [Names -> Rates]
      /\ stale[w] \in OldWorkers /\ name \in Names /\ done \in Histories
      /\ CountsItsLosses(done)
  <2>1. stale[w] # None /\ stale \in [Workers -> OldWorkers \cup {None}]
    BY DEF OldCheck, IInv, TypeOK
  <2>2. stale[w] \in OldWorkers
    BY <2>1
  <2>3. QED
    BY <2>1, <2>2 DEF OldWorkers, IInv, TypeOK, Reported, Counted
<1>4. turn \in Histories /\ CountsItsLosses(turn)
  BY <1>3, RecordCountsLosses
<1>5. /\ Len(done.history) \in Nat /\ Len(turn.history) \in Nat
      /\ Len(turn.history) >= Len(done.history)
  BY <1>3, RecordGrows
<1>6. stale' = [stale EXCEPT ![w] = [name |-> name, done |-> turn]]
  <2>1. [stale[w] EXCEPT !.done = turn] = [name |-> name, done |-> turn]
    BY <1>3 DEF OldWorkers
  <2>2. stale' = [stale EXCEPT ![w] = [stale[w] EXCEPT !.done = turn]]
    BY <1>1
  <2>3. QED
    BY <2>1, <2>2
<1>7. rate' = IF program = "python" THEN [rate EXCEPT ![name] = Rated(turn, rate[name])]
              ELSE rate
  BY <1>1
<1> HIDE DEF turn, name, done
<1>8. /\ Rated(turn, rate[name]) \in Rates
      /\ IF Len(turn.history) > Enough THEN Rated(turn, rate[name]) = Share(turn)
         ELSE Rated(turn, rate[name]) = rate[name]
  BY <1>3, <1>4, RatedTurn
<1>9. [name |-> name, done |-> turn] \in OldWorkers
  BY <1>3, <1>4 DEF OldWorkers
<1>10. TypeOK'
  <2>1. stale' \in [Workers -> OldWorkers \cup {None}] /\ rate' \in [Names -> Rates]
    BY <1>3, <1>6, <1>7, <1>8, <1>9
  <2>2. QED
    BY <1>2, <2>1 DEF IInv, TypeOK
<1>11. \A v \in Workers : stale'[v] = IF v = w THEN [name |-> name, done |-> turn] ELSE stale[v]
  BY <1>3, <1>6
<1>12. Counted'
  BY <1>2, <1>4, <1>11 DEF IInv, Reported, Counted
<1>13. RatesOfHistory'
  <2>1. SUFFICES ASSUME NEW m \in Names, servers[m] # None, rate'[m] # NoRate
                 PROVE  \E h \in Writers(m)' :
                            /\ Len(h.history) > Enough /\ CountsItsLosses(h)
                            /\ rate'[m] = Share(h)
    BY <1>2 DEF RatesOfHistory
  <2>2. CASE program = "python" /\ m = name /\ Len(turn.history) > Enough
    <3>1. stale'[w] # None /\ stale'[w].name = m /\ stale'[w].done = turn
      <4>1. stale'[w] = [name |-> name, done |-> turn]
        BY <1>11
      <4>2. None \notin OldWorkers
        BY <1>3, NoneIsNoWorker
      <4>3. QED
        BY <2>2, <4>1, <4>2, <1>9
    <3>2. turn \in Writers(m)'
      BY <2>2, <3>1, <1>2 DEF Writers
    <3>3. QED
      BY <2>2, <3>2, <1>3, <1>4, <1>7, <1>8
  <2>3. CASE ~(program = "python" /\ m = name /\ Len(turn.history) > Enough)
    <3>1. rate'[m] = rate[m]
      BY <2>3, <1>3, <1>7, <1>8
    <3>2. PICK h \in Writers(m) :
            Len(h.history) > Enough /\ CountsItsLosses(h) /\ rate[m] = Share(h)
      BY <2>1, <3>1 DEF IInv, Reported, RatesOfHistory
    <3>3. CASE h = online[m]
      BY <3>1, <3>2, <3>3, <1>2 DEF Writers
    <3>4. CASE h # online[m]
      <4>1. PICK v \in Workers :
              program = "python" /\ stale[v] # None /\ stale[v].name = m /\ h = stale[v].done
        BY <3>2, <3>4 DEF Writers
      <4>2. v # w
        BY <4>1, <2>3, <3>2, <1>5, LengthIsPositive DEF name, done
      <4>3. stale'[v] = stale[v]
        BY <4>2, <1>11
      <4>4. h \in Writers(m)'
        BY <4>1, <4>3, <1>2 DEF Writers
      <4>5. QED
        BY <3>1, <3>2, <4>4
    <3>5. QED
      BY <3>3, <3>4
  <2>4. QED
    BY <2>2, <2>3
<1>14. QED
  BY <1>2, <1>10, <1>12, <1>13 DEF IInv, Reported, Connected, Held, Greeted, Welcomed, Forgotten,
                                   MonitorsOfSession, Configured, NothingListed

(* A worker ends when its name is not listed: no rate rests on its turns.  *)
LEMMA StepWorkerStops ==
    ASSUME IInv, NEW w \in Workers, WorkerStops(w)
    PROVE  IInv'
<1>1. /\ UNCHANGED <<program, pc, sock, servers, online, rate, slot, config, banned, intact,
                     down, up, calm>>
      /\ stale' = [stale EXCEPT ![w] = None]
      /\ servers[stale[w].name] = None
  BY DEF WorkerStops, Missing, link, server
<1>2. TypeOK'
  BY <1>1 DEF IInv, TypeOK
<1>3. \A v \in Workers : stale'[v] = IF v = w THEN None ELSE stale[v]
  BY <1>1 DEF IInv, TypeOK
<1>4. Counted'
  BY <1>1, <1>3 DEF IInv, Reported, Counted
<1>5. RatesOfHistory'
  <2>1. SUFFICES ASSUME NEW m \in Names, servers[m] # None, rate[m] # NoRate
                 PROVE  \E h \in Writers(m)' :
                            /\ Len(h.history) > Enough /\ CountsItsLosses(h)
                            /\ rate[m] = Share(h)
    BY <1>1 DEF RatesOfHistory
  <2>2. PICK h \in Writers(m) :
          Len(h.history) > Enough /\ CountsItsLosses(h) /\ rate[m] = Share(h)
    BY <2>1 DEF IInv, Reported, RatesOfHistory
  <2>3. \A v \in Workers : stale[v].name = m => v # w
    BY <2>1, <1>1
  <2>4. h \in Writers(m)'
    BY <2>2, <2>3, <1>1, <1>3 DEF Writers
  <2>5. QED
    BY <2>2, <2>4
<1>6. QED
  BY <1>1, <1>2, <1>4, <1>5 DEF IInv, Reported, Connected, Held, Greeted, Welcomed, Forgotten,
                                MonitorsOfSession, Configured, NothingListed

(* A ban ends; a cut is noticed by nobody.                                 *)
LEMMA StepQuietly ==
    ASSUME IInv, BanEnds \/ (\E c \in Conns : Cut(c)) \/ Calm
    PROVE  IInv'
<1>1. /\ UNCHANGED <<program, pc, sock, monitors, slot, config, down, up>>
      /\ intact' \in [Conns -> BOOLEAN]
      /\ banned' \in BOOLEAN /\ calm' \in BOOLEAN
  BY DEF BanEnds, Cut, Calm, client, link, server, IInv, TypeOK
<1>2. Typed' /\ Reported' /\ servers' = servers
  BY <1>1, SameMonitors
<1>3. TypeOK'
  BY <1>1, <1>2 DEF IInv, TypeOK, Typed
<1>4. QED
  BY <1>1, <1>2, <1>3 DEF IInv, Connected, Held, Greeted, Welcomed, Forgotten,
                          MonitorsOfSession, Configured, NothingListed

(* New monitors are configured for those who log in again.                 *)
LEMMA StepReconfigure ==
    ASSUME IInv, Reload \/ ServerRestarts
    PROVE  IInv'
<1>1. /\ config' \in Configs /\ banned' = FALSE
      /\ UNCHANGED <<program, pc, sock, monitors, intact, calm>>
  BY DEF Reload, ServerRestarts, client
<1>2. /\ slot' \in [Conns -> {"free", "waiting", "connected", "authed", "dropped"}]
      /\ \A c \in Conns : slot'[c] = slot[c] \/ slot'[c] = Dropped(c)
      /\ \A c \in Conns : slot'[c] # "authed"
  BY DEF Reload, ServerRestarts, AllDropped, Dropped, IInv, TypeOK
<1>3. up' \in [Conns -> Seq({"login", "update", "fin"})]
  BY NoLines DEF Reload, ServerRestarts, AllDropped, IInv, TypeOK
<1>4. /\ down' \in [Conns -> Seq(Messages)]
      /\ sock # None /\ slot'[sock] \in {"waiting", "connected"} => down'[sock] = down[sock]
  <2>1. PICK told \in SUBSET Conns :
          /\ Tell(told) \/ UNCHANGED down
          /\ \A c \in told : slot'[c] = Dropped(c)
    <3>1. CASE Reload
      <4>1. \A c \in {d \in Conns : slot[d] = "authed"} : slot'[c] = Dropped(c)
        BY <3>1 DEF Reload
      <4>2. QED
        BY <3>1, <4>1 DEF Reload
    <3>2. CASE ServerRestarts
      <4>1. \A c \in {d \in Conns : Open(d)} : slot'[c] = Dropped(c)
        BY <3>2 DEF ServerRestarts, AllDropped, Open
      <4>2. QED
        BY <3>2, <4>1 DEF ServerRestarts
    <3>3. QED
      BY <3>1, <3>2
  <2>2. CASE Tell(told) /\ sock \in told /\ intact[sock]
    <3>1. sock \in Conns /\ down' = [down EXCEPT ![sock] = Append(down[sock], Refused)]
      BY <2>1, <2>2 DEF Tell
    <3>2. Append(down[sock], Refused) \in Seq(Messages)
      BY <3>1, ServerMessages, AppendProperties DEF IInv, TypeOK
    <3>3. slot'[sock] = "dropped"
      BY <2>1, <2>2, Zenon DEF Dropped
    <3>4. QED
      BY <3>1, <3>2, <3>3 DEF IInv, TypeOK
  <2>3. CASE ~(Tell(told) /\ sock \in told /\ intact[sock])
    BY <2>1, <2>3 DEF Tell, IInv, TypeOK
  <2>4. QED
    BY <2>2, <2>3
<1>5. Typed' /\ Reported' /\ servers' = servers
  BY <1>1, SameMonitors
<1>6. TypeOK'
  BY <1>1, <1>2, <1>3, <1>4, <1>5 DEF IInv, TypeOK, Typed
<1>7. sock # None =>
          /\ slot'[sock] = slot[sock] \/ slot'[sock] = "dropped"
          /\ slot'[sock] # "authed"
  BY <1>2 DEF Dropped, IInv, TypeOK
<1>8. pc = "stream" => sock # None
  BY DEF IInv, TypeOK
<1>9. QED
  BY <1>1, <1>4, <1>5, <1>6, <1>7, <1>8 DEF IInv, Connected, Held, Greeted, Welcomed, Forgotten,
                                            MonitorsOfSession, NothingListed

(* The machine goes down with all it knew, and comes up.                   *)
LEMMA StepMachine ==
    ASSUME IInv, MachineDown \/ MachineUp
    PROVE  IInv'
<1>1. CASE MachineDown
  <2>1. /\ pc' = "off" /\ sock' = None
        /\ servers' = NothingListed /\ stale' = [w \in Workers |-> None]
        /\ online' = [n \in Names |-> NoHistory] /\ rate' = [n \in Names |-> NoRate]
        /\ slot' = [c \in Conns |-> IF c = sock /\ slot[c] = "dropped" THEN "free" ELSE slot[c]]
        /\ UNCHANGED <<program, config, banned, calm>>
    BY <1>1 DEF MachineDown
  <2>2. /\ up' \in [Conns -> Seq({"login", "update", "fin"})]
        /\ intact' \in [Conns -> BOOLEAN]
        /\ down' \in [Conns -> Seq(Messages)]
    <3>1. CASE sock = None
      BY <1>1, <3>1 DEF MachineDown, link, IInv, TypeOK
    <3>2. CASE sock # None
      <4>1. sock \in Conns /\ down' = [down EXCEPT ![sock] = <<>>]
        BY <1>1, <3>2 DEF MachineDown, IInv, TypeOK
      <4>2. \/ UNCHANGED intact /\ (UNCHANGED up \/ ToServer(sock, "fin"))
            \/ intact' = [intact EXCEPT ![sock] = FALSE] /\ UNCHANGED up
        BY <1>1, <3>2 DEF MachineDown
      <4>3. up' \in [Conns -> Seq({"login", "update", "fin"})]
        BY <4>1, <4>2, SentToServer DEF IInv, TypeOK, Lines
      <4>4. QED
        BY <4>1, <4>2, <4>3, ServerMessages DEF IInv, TypeOK
    <3>3. QED
      BY <3>1, <3>2
  <2>3. Typed' /\ Reported'
    <3>1. Counted' /\ RatesOfHistory'
      BY <2>1, NoHistoryCounts DEF Counted, RatesOfHistory
    <3>2. NoRate \in Rates
      BY DEF NoRate, Rates
    <3>3. QED
      BY <2>1, <3>1, <3>2, NoHistoryCounts, NothingIsListed DEF Typed, Reported
  <2>4. slot' \in [Conns -> {"free", "waiting", "connected", "authed", "dropped"}]
    BY <2>1 DEF IInv, TypeOK
  <2>5. TypeOK'
    BY <2>1, <2>2, <2>3, <2>4 DEF IInv, TypeOK, Typed, Reads
  <2>6. Connected'
    BY <2>1 DEF Connected, Held, Greeted, Welcomed, Forgotten, MonitorsOfSession, NothingListed
  <2>7. QED
    BY <2>3, <2>5, <2>6 DEF IInv
<1>2. CASE MachineUp
  <2>1. /\ pc = "off" /\ pc' = "dial"
        /\ UNCHANGED <<program, sock, monitors, slot, config, banned, intact, down, up, calm>>
    BY <1>2 DEF MachineUp, link, server
  <2>2. sock = None
    BY <2>1 DEF IInv, TypeOK, Reads
  <2>3. TypeOK'
    BY <2>1, <2>2, SameMonitors DEF IInv, TypeOK, Typed, Reads
  <2>4. QED
    BY <2>1, <2>2, <2>3, SameMonitors DEF IInv, Connected, Held, Greeted, Welcomed, Forgotten,
                                          MonitorsOfSession, NothingListed
<1>3. QED
  BY <1>1, <1>2

-------------------------------------------------------------------------------
(* What the lemmas establish is an invariant of the specification.         *)
THEOREM SessionsOfClient == Spec => []IInv
<1>1. Init => IInv
  <2> SUFFICES ASSUME Init PROVE IInv
    OBVIOUS
  <2>1. Typed /\ Reported
    <3>1. Counted /\ RatesOfHistory
      BY NoHistoryCounts DEF Init, Counted, RatesOfHistory
    <3>2. NoRate \in Rates
      BY DEF NoRate, Rates
    <3>3. QED
      BY <3>1, <3>2, NoHistoryCounts, NothingIsListed DEF Init, Typed, Reported
  <2>2. TypeOK
    <3>1. down \in [Conns -> Seq(Messages)] /\ up \in [Conns -> Seq({"login", "update", "fin"})]
      BY ServerMessages, NoLines DEF Init
    <3>2. slot \in [Conns -> {"free", "waiting", "connected", "authed", "dropped"}]
      BY DEF Init
    <3>3. QED
      BY <2>1, <3>1, <3>2 DEF Init, TypeOK, Typed, Reads
  <2>3. Connected
    BY DEF Init, Connected, Held, Greeted, Welcomed, Forgotten, MonitorsOfSession
  <2>4. QED
    BY <2>1, <2>2, <2>3 DEF IInv
<1>2. IInv /\ [Next]_vars => IInv'
  <2> SUFFICES ASSUME IInv, [Next]_vars PROVE IInv'
    OBVIOUS
  <2>1. CASE Next
    BY <2>1, StepConnect, StepServe, StepCheck, StepOldCheck, StepWorkerStops, StepQuietly,
       StepReconfigure, StepMachine
       DEF Next, Environment
  <2>2. CASE UNCHANGED vars
    <3>1. UNCHANGED <<program, pc, sock, monitors, slot, config, banned, intact, down, up, calm>>
      BY <2>2 DEF vars, client, link, server
    <3>2. Typed' /\ Reported' /\ servers' = servers
      BY <3>1, SameMonitors
    <3>3. QED
      BY <3>1, <3>2 DEF IInv, TypeOK, Typed, Connected, Held, Greeted, Welcomed, Forgotten,
                        MonitorsOfSession, Configured, NothingListed
  <2>3. QED
    BY <2>1, <2>2
<1>3. QED
  BY <1>1, <1>2, PTL DEF Spec

(* Every variable of the link keeps its type.                              *)
THEOREM LinkTypes == Spec => []TypeOK
BY SessionsOfClient, PTL DEF IInv

(* Whatever is reloaded, cut or read in one piece: the entries a client in *)
(* session reports on are monitors the server has configured for it, with  *)
(* the targets it has configured.  What older workers check is not said.   *)
THEOREM MonitorsAreOfSession == Spec => []MonitorsOfSession
BY SessionsOfClient, PTL DEF IInv, Connected

(* However many workers there are of earlier entries, a rate is the share  *)
(* of losses in the last checks of one worker: in Go the entry's own, in   *)
(* Python perhaps that of an earlier entry of the name.                    *)
THEOREM RatesAreOfHistory == Spec => []RatesOfHistory
BY SessionsOfClient, PTL DEF IInv, Reported
===============================================================================
