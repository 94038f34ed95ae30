---- MODULE MCBankReading ----
(* A bank of two batteries, with payloads around every boundary. *)
EXTENDS BankReading

CONSTANTS b1, b2, bx

\* Sixteen cells, all alike but the first and the last.
MCCells(first, last) == [i \in 1..16 |-> IF i = 1 THEN first ELSE IF i = 16 THEN last ELSE 3300]
MCCellLists == {MCCells(3290, 3310), MCCells(3500, 1900), [i \in 1..15 |-> 3300]}

\* 0x8000 is no current; 3 tenths are still idle.
MCSummaries ==
    {[amps |-> 32768 + 4, low |-> 3290, high |-> 3310],
     [amps |-> 32768 - 3, low |-> 3290, high |-> 3330],
     [amps |-> 32768 - 9, low |-> 0, high |-> 0], None}

\* Every pair at every level, nothing set, only bits no alarm reads, and a
\* payload that is too long.
MCAlarmFields ==
    {[i \in 1..8 |-> byte] : byte \in {0, 228, 57, 78, 147}}
    \cup {[i \in 1..8 |-> IF i = 1 THEN 48 ELSE IF i = 6 THEN 240 ELSE 0], [i \in 1..9 |-> 255]}

MCRelayBytes == {<<1>>, <<27, 1>>, <<1, 2, 3, 4, 5>>, <<>>}

MCRosters ==
    [count : {2, 4}, entries : {<<>>, <<b1>>, <<b1, Garbled, b2>>, <<b1, b2, bx>>}]
====
