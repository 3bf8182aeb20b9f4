------------------------- MODULE MCWebSocketStream -------------------------
(* A frame of every kind that decodeOneFrame tells apart, with payloads of   *)
(* up to two bytes and lengths in each of the three forms; the buffer holds  *)
(* just what BufferAssumption asks for.                                      *)
EXTENDS WebSocketStream

Form(op, field) ==
  [op |-> op, fin |-> TRUE, rsv |-> FALSE, masked |-> TRUE, field |-> field, code |-> 0]

Good ==
  {Form("binary", <<0>>), Form("text", <<126, 0, 1>>),
   Form("binary", <<127, 0, 0, 0, 0, 0, 0, 0, 2>>), Form("ping", <<1>>),
   Form("close", <<0>>), [Form("close", <<2>>) EXCEPT !.code = 1001]}

Bad ==
  {[Form("binary", <<0>>) EXCEPT !.rsv = TRUE], [Form("text", <<0>>) EXCEPT !.fin = FALSE],
   [Form("binary", <<1>>) EXCEPT !.masked = FALSE], Form("ping", <<126, 0, 1>>),
   Form("continuation", <<0>>), Form("reservedControl", <<0>>),
   Form("binary", <<3>>), Form("binary", <<126, 1, 0>>),
   Form("binary", <<127, 0, 0, 0, 0, 128, 0, 0, 0>>)}

MCClientFrames == Good \cup Bad
=============================================================================
