--------------------------- MODULE MCMessagePath ---------------------------
(* Two nodes with two connections and one; each process counts its          *)
(* connections from 1, so the third may have the ID of the first.           *)
EXTENDS MessagePath
CONSTANTS n1, n2, c1, c2, c3, a, b, d, s
MCNodeOf == [c \in Conns |-> IF c = c3 THEN n2 ELSE n1]
MCSameID == [c \in Conns |-> IF c = c2 THEN 2 ELSE 1]
MCSenderOf == [m \in Chats |-> CASE m = a -> c1 [] m = b -> c3 [] OTHER -> c2]
MCBatches == {{d}, {a, b}, {a, s}}
MCCallerOf == [m \in Sysmsgs |-> n2]
=============================================================================
