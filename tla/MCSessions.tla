------------------------------ MODULE MCSessions ------------------------------
(* Small instances of Sessions for TLC.                                    *)
EXTENDS Sessions

(* Two ports of one IP, two IPs, or both.                                  *)
OneIp == [a \in {"a1", "a2"} |-> "x"]
OneIpAndLoopback == [a \in {"a1", "a2", "lo"} |-> IF a = "lo" THEN "y" ELSE "x"]
TwoIps == [a \in {"a1", "a2"} |-> IF a = "a1" THEN "x" ELSE "y"]

TwoUsers == {<<"alice", "bob">>, <<"bob">>}
OneUser == {<<"alice">>}

Singles(lines) == {<<line>> : line \in lines}
LineByLine == Singles({"alice", "junk"})
Pipelined == Singles({"alice", "bob", "logout"}) \cup {<<"alice", "update">>}
===============================================================================
