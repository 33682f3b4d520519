------------------------------- MODULE Listing -------------------------------
(***************************************************************************)
(* How much room a listing says was used (src/tools/checkbanks.py for a    *)
(* bank, src/tools/mktail.py for the fixed tail).  p2bin cuts an image off *)
(* at the end of its range without a word, and the tail's code runs on     *)
(* into the vectors: these two readings are all that stands between.       *)
(***************************************************************************)
EXTENDS Naturals, Sequences, FiniteSetsExt

CONSTANTS
  LIMIT,     \* the first address the code may not reach: $1800, or $1FFC
  MaxRows    \* bound: rows of a listing

ASSUME ListingAssumption == LIMIT \in Nat \ {0} /\ MaxRows \in Nat

VARIABLES
  rows,        \* the listing: instructions, and ORGs, at their addresses
  here,        \* the assembler's location counter
  tool,        \* "asl" while it is written, then who reads it
  cursor,      \* the row that is read next
  end,         \* one past the highest byte seen
  over,        \* rows past the limit
  deliberate,  \* the rows belong to a segment that starts there on purpose
  fit          \* the verdict

listVars == <<rows, here, tool, cursor, end, over, deliberate, fit>>

Row(org, at, n) == [org |-> org, at |-> at, n |-> n]
Stop(r) == r.at + r.n

ListInit ==
  /\ rows = <<>> /\ here = 0 /\ tool = "asl" /\ cursor = 1
  /\ end = 0 /\ over = {} /\ deliberate = FALSE
  /\ fit = "unknown"

\* The assembler emits an instruction or a row of data.
Assemble(n) ==
  /\ tool = "asl" /\ Len(rows) < MaxRows
  /\ rows' = Append(rows, Row(FALSE, here, n))
  /\ here' = here + n
  /\ UNCHANGED <<tool, cursor, end, over, deliberate, fit>>

\* An ORG: to a hole, forward or back, or to the vectors.
Org(at) ==
  /\ tool = "asl" /\ Len(rows) < MaxRows
  /\ rows' = Append(rows, Row(TRUE, at, 0))
  /\ here' = at
  /\ UNCHANGED <<tool, cursor, end, over, deliberate, fit>>

Open(reader) ==
  /\ tool = "asl" /\ rows # <<>>
  /\ tool' = reader
  /\ UNCHANGED <<rows, here, cursor, end, over, deliberate, fit>>

Reading(reader) == tool = reader /\ cursor <= Len(rows)

Seen(r) == end' = Max({end, Stop(r)})

\* The first version of checkbanks, which its comment tells of: it passed over
\* whatever lies beyond the limit.
BankRowMutant ==
  /\ Reading("checkbanks")
  /\ LET r == rows[cursor]
     IN  IF r.org \/ r.at >= LIMIT THEN UNCHANGED <<end, over>>
         ELSE /\ Seen(r)
              /\ over' = IF Stop(r) > LIMIT THEN over \cup {r} ELSE over
  /\ cursor' = cursor + 1
  /\ UNCHANGED <<rows, here, tool, deliberate, fit>>

\* checkbanks: the rows after an ORG at or above the limit are passed over.
BankRow ==
  /\ Reading("checkbanks")
  /\ LET r == rows[cursor]
     IN  /\ deliberate' = IF r.org THEN r.at >= LIMIT ELSE deliberate
         /\ IF r.org \/ deliberate THEN UNCHANGED <<end, over>>
            ELSE /\ Seen(r)
                 /\ over' = IF Stop(r) > LIMIT THEN over \cup {r} ELSE over
  /\ cursor' = cursor + 1
  /\ UNCHANGED <<rows, here, tool, fit>>

\* mktail: the rows that start at or above the vectors are passed over.
TailRow ==
  /\ Reading("mktail")
  /\ LET r == rows[cursor]
     IN  IF r.org \/ r.at >= LIMIT THEN UNCHANGED end ELSE Seen(r)
  /\ cursor' = cursor + 1
  /\ UNCHANGED <<rows, here, tool, over, deliberate, fit>>

Verdict ==
  /\ tool # "asl" /\ cursor > Len(rows) /\ fit = "unknown"
  /\ fit' = IF over # {} \/ (tool = "mktail" /\ end > LIMIT)
            THEN "over" ELSE "fits"
  /\ UNCHANGED <<rows, here, tool, cursor, end, over, deliberate>>

ListNext ==
  \/ (\E n \in 1 .. 3 : Assemble(n)) \/ (\E at \in 0 .. LIMIT : Org(at))
  \/ (\E reader \in {"checkbanks", "mktail"} : Open(reader))
  \/ BankRow \/ TailRow \/ Verdict

ListSpec == ListInit /\ [][ListNext]_listVars

-----------------------------------------------------------------------------
(* Properties *)

\* The rows of the code, those an ORG has put at the limit apart.
OnPurpose(i) == \E k \in 1 .. i : /\ rows[k].org /\ rows[k].at >= LIMIT
                                 /\ \A j \in k + 1 .. i : ~rows[j].org
code == {i \in DOMAIN rows : ~rows[i].org /\ ~OnPurpose(i)}
Overruns == \E i \in code : Stop(rows[i]) > LIMIT

\* The verdict is right: an overflow is found and a listing that fits is not
\* turned away.  mktail has a blind spot: code that runs on into the vectors
\* passes, with "0 spare", if one of its instructions starts exactly there.
VerdictIsRight ==
  fit # "unknown" =>
    \/ (fit = "over") = Overruns
    \/ tool = "mktail" /\ fit = "fits" /\ \E i \in code : rows[i].at = LIMIT
=============================================================================
