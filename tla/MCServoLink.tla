----------------------------- MODULE MCServoLink -----------------------------
(* ServoLink with the CRC of usart.c over the frame's first bytes, for the *)
(* frequencies 0 (the line stands), 15.00 Hz and 30.00 Hz.                 *)
EXTENDS ServoLink, ModbusCrc

(* The first bytes ServoFreqSet gives a frame, by inverter_type. *)
Header(type) ==
  CASE type = 0 -> <<0, 6, 250, 1>>
    [] type = 1 -> <<0, 6, 32, 1>>
    [] type = 2 -> <<1, 16, 0, 99, 0, 2, 4, 4, 127>>
    [] type = 3 -> <<0, 6, 112, 21>>
    [] type = 4 -> <<0, 6, 48, 0>>
    [] OTHER -> <<>>

MCFreqs == {0, 1500, 3000}
MCParas == {[first |-> 1500, second |-> 0], [first |-> 3000, second |-> 1500]}
MCRepairHz == {1500}
MCTypes == {2, 5}

(* The bytes that occur, and the CRCs of all their pairs, computed once. *)
Highs == {0} \cup {Code(t, f) \div 256 : t \in MCTypes, f \in MCFreqs}
Lows == {0} \cup {Code(t, f) % 256 : t \in MCTypes, f \in MCFreqs}
CrcTable == [t \in MCTypes |-> [h \in Highs |-> [l \in Lows |-> get_CRC(Header(t) \o <<h, l>>)]]]
MCCrc == CrcTable

=============================================================================
