---- MODULE MCFrameParser ----
(* FrameParser with the protocol's own delimiters and escapes. *)
EXTENDS FrameParser

\* 0x5D, 0x5E, 0x7D and 0x7E are special; 1 and 2 double as escape codes.
MCAlphabet == {0, 1, 2, 3, 65, 66, 93, 94, 95, 125, 126, 127}
\* Payload and checksum between them need every escape.
MCMessages == {<<>>, <<93>>, <<125>>, <<1>>}
\* Payload 0x5D is escaped as a literal, its checksum 0x5E as a flag.
MCEscaped == {<<93>>}
MCNoise == {94, 126, 93}
====
