------------------------------- MODULE MCBoot -------------------------------
(* Boot with programs of every format: one segment or two that touch or    *)
(* overlap, the start segment before, between or behind them, sections of  *)
(* an ELF file that are not loaded, and files with a wrong signature.      *)
EXTENDS Boot

Segment(addr, data) == [addr |-> addr, data |-> data, zeros |-> 0, kind |-> "load"]
Data == {<<1>>, <<1, 0>>, <<0, 1, 1>>}
Starts == {Segment(3, <<>>)}
Segments == {Segment(a, d) : a \in {0, 2}, d \in Data}

PgzSegments ==
  {<<s>> : s \in Segments}
    \cup {<<e, s>> : e \in Starts, s \in Segments}
    \cup {<<s, e, t>> : e \in Starts, s \in Segments, t \in Segments}

EntryOf(segments) ==
  LET empty == {i \in DOMAIN segments : segments[i].data = <<>>}
  IN  IF empty = {} THEN 0 ELSE segments[CHOOSE i \in empty : TRUE].addr

PgzPrograms ==
  {[format |-> "PGZ", width |-> w, sound |-> b, segments |-> s, entry |-> EntryOf(s)] :
     w \in {Narrow, Wide}, b \in {TRUE}, s \in PgzSegments}

PgxPrograms ==
  {[format |-> "PGX", width |-> Wide, sound |-> b, segments |-> <<s>>, entry |-> s.addr] :
     b \in {TRUE}, s \in Segments}

Sections ==
  Segments \cup {[Segment(0, <<1>>) EXCEPT !.kind = k] : k \in {"note", "dynamic"}}
           \cup {[Segment(1, <<0>>) EXCEPT !.zeros = 2]}

ElfPrograms ==
  {[format |-> "ELF", width |-> Wide, sound |-> b, segments |-> s, entry |-> 3] :
     b \in {TRUE}, s \in {<<t>> : t \in Sections} \cup (Segments \X Sections)}

(* Files with a wrong signature, and ones without a format. *)
Wrong ==
  {[format |-> f, width |-> Wide, sound |-> FALSE, segments |-> <<s>>, entry |-> 3] :
     f \in {"PGZ", "PGX", "ELF"}, s \in Segments}
Raw ==
  {[format |-> "BIN", width |-> Wide, sound |-> TRUE, segments |-> <<Segment(0, d)>>, entry |-> 0] :
     d \in {<<1>>, <<0, 1, 0, 1>>}}

MCPrograms == PgzPrograms \cup PgxPrograms \cup ElfPrograms \cup Wrong \cup Raw

(* A search finds nothing, a raw file alone, or one before a program. *)
MCDirectories ==
  {<<>>} \cup {<<r>> : r \in Raw} \cup {<<r, p>> : r \in Raw, p \in PgxPrograms}

MCDestinations == {1}
MCSDFiles == {{}, {"pgx"}, {"pgx", "pgz"}}
MCKeys == {2, 3, SPACE}
=============================================================================
