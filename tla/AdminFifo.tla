----------------------------- MODULE AdminFifo ------------------------------
(***************************************************************************)
(* process_admin_fifo of src/backend/health_checker.c: lines written to    *)
(* the admin pipe are cut from the byte stream in a fixed buffer that      *)
(* survives from one read to the next.                                     *)
(*                                                                         *)
(* A byte is <<i, k>>, the k-th byte of the i-th line written, or the      *)
(* newline after it, k = 0, so that what is handled can be told from what  *)
(* was written.                                                            *)
(***************************************************************************)
EXTENDS Integers, Sequences

CONSTANTS
  LineMax,      \* HC_ADMIN_LINE_MAX, size of the buffer with its NUL
  ReadMax,      \* size of the buffer one read fills
  Length,       \* lengths of the lines written
  MaxLines      \* bound: lines written

ASSUME LineMaxAssumption == LineMax \in Nat \ {0}
ASSUME ReadMaxAssumption == ReadMax \in Nat \ {0}
ASSUME LengthAssumption == Length \subseteq Nat /\ MaxLines \in Nat

VARIABLES
  written,      \* length of each line written so far
  pipe,         \* bytes written and not read
  admin_buf,    \* the line being assembled
  handled       \* lines passed to handle_admin_line

afvars == <<written, pipe, admin_buf, handled>>

Newline(i) == <<i, 0>>

Line(i, length) == [k \in 1 .. length |-> <<i, k>>]

(* A writer's write of one line is atomic: it is shorter than PIPE_BUF. *)
WriteLine(length) ==
  /\ Len(written) < MaxLines
  /\ written' = Append(written, length)
  /\ LET i == Len(written) + 1
     IN pipe' = pipe \o Append(Line(i, length), Newline(i))
  /\ UNCHANGED <<admin_buf, handled>>

-----------------------------------------------------------------------------
(* Mutant: each read starts with an empty line. *)
StateFresh == [buf |-> <<>>, out |-> handled]

State == [buf |-> admin_buf, out |-> handled]

(* One byte: a newline ends the line, which is handled unless it is empty; *)
(* any other byte is added, or empties the buffer it does not fit in.      *)
Byte(s, c) ==
  IF c[2] = 0
  THEN [buf |-> <<>>, out |-> IF s.buf = <<>> THEN s.out ELSE Append(s.out, s.buf)]
  ELSE IF Len(s.buf) + 1 < LineMax THEN [s EXCEPT !.buf = Append(@, c)]
  ELSE [s EXCEPT !.buf = <<>>]

(* The loop over the first n bytes that a read returned *)
Taken(n) ==
  LET after[i \in 0 .. Len(pipe)] == IF i = 0 THEN State ELSE Byte(after[i - 1], pipe[i])
  IN after[n]

(* One read and the loop over all of it. *)
ReadPipe ==
  /\ pipe # <<>>
  /\ LET r == IF Len(pipe) < ReadMax THEN Len(pipe) ELSE ReadMax
     IN /\ pipe' = SubSeq(pipe, r + 1, Len(pipe))
        /\ admin_buf' = Taken(r).buf
        /\ handled' = Taken(r).out
  /\ UNCHANGED written

afInit ==
  /\ written = <<>>
  /\ pipe = <<>>
  /\ admin_buf = <<>>
  /\ handled = <<>>

afNext == (\E length \in Length : WriteLine(length)) \/ ReadPipe

afSpec == afInit /\ [][afNext]_afvars

-----------------------------------------------------------------------------
(* However the reads fall between the writes, and whatever overlong lines  *)
(* come between: a line that fits is handled whole as soon as its newline  *)
(* has been read; lines are handled in the order they were written, none   *)
(* of them twice, and of one that does not fit nothing but its end; and    *)
(* the NUL after the last byte is inside the buffer.                       *)
FittingLinesHandled ==
  /\ \A i \in 1 .. Len(written) :
       written[i] \in 1 .. LineMax - 1 /\ (\A n \in 1 .. Len(pipe) : pipe[n] # Newline(i))
         => \E j \in 1 .. Len(handled) : handled[j] = Line(i, written[i])
  /\ \A j \in 1 .. Len(handled) :
       LET i == handled[j][1][1] IN handled[j][Len(handled[j])] = <<i, written[i]>>
  /\ \A j, l \in 1 .. Len(handled) : j < l => handled[j][1][1] < handled[l][1][1]
  /\ Len(admin_buf) < LineMax

-----------------------------------------------------------------------------
(* What the comments and the docs say and the code does not do: TLC        *)
(* refutes each of these (README.md, "What the code does not do").         *)

(* Nothing but whole lines is ever handled: an overlong line is dropped up *)
(* to the next newline (health_checker.c:195-198).                         *)
OnlyLinesHandled ==
  \A j \in 1 .. Len(handled) :
    \E i \in 1 .. Len(written) : handled[j] = Line(i, written[i])
=============================================================================
