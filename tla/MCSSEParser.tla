----------------------------- MODULE MCSSEParser -----------------------------
(* Checksums of an event in one piece, in two, and of one outside the schema; both
   fields and their damaged forms; a line as long as the bound and one longer. *)
EXTENDS SSEParser

Line(kind, value, size, weight) == [kind |-> kind, value |-> value, size |-> size, weight |-> weight]

MCLines ==
  {Line("crc", <<"delta", "whole">>, 1, 0), Line("crc", <<"delta", "head", "tail">>, 1, 0),
   Line("crc", <<"delta", "misfit">>, 1, 0), Line("bad_crc", << >>, 1, 0), Line("garbled", << >>, 1, 0),
   Line("id", <<"7:1">>, 1, 1), Line("null_id", << >>, 3, 0),
   Line("event", <<"delta">>, 1, 0), Line("comment", << >>, 4, 0)}
  \cup {Line("data", <<piece>>, 1, 1) : piece \in {"whole", "head", "tail", "misfit", "space"}}
=============================================================================
