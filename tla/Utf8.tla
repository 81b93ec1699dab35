-------------------------------- MODULE Utf8 --------------------------------
(***************************************************************************)
(* UTF-8 validation in libwsc.                                             *)
(*                                                                         *)
(*  - IsValidUtf8 translates WebSocketReceiver::isValidUtf8, the one-shot  *)
(*    validator the receiver applies to close-frame reasons.               *)
(*  - Utf8Feed / Utf8Final model the incremental Utf8Validator the         *)
(*    receiver applies to text messages (validateChunk, validateFinal,     *)
(*    reset).  Its source is not part of the repository, so it is written  *)
(*    from the spec (section 4.A): the well-formed byte sequences of       *)
(*    RFC 3629, section 4, rejected at the first byte that no valid        *)
(*    continuation can follow.                                             *)
(*  - Utf8Ref is an independent reference: a sequence is valid iff it      *)
(*    splits into encodings whose decoded code point is a Unicode scalar   *)
(*    value encoded in the minimal number of bytes.                        *)
(* Bytes are naturals in 0..255; a byte sequence is a TLA+ sequence.       *)
(***************************************************************************)
EXTENDS Integers, Sequences, SequencesExt

\* (b & 0xC0) == 0x80: a continuation byte.
IsCont(b) == b \div 64 = 2

(***************************************************************************)
(* WebSocketReceiver::isValidUtf8.  Utf8From(b, i) is the while loop from  *)
(* the 0-based index i; the masks (b & 0xE0) == 0xC0, (b & 0xF0) == 0xE0   *)
(* and (b & 0xF8) == 0xF0 are b \div 32 = 6, b \div 16 = 14, b \div 8 = 30.*)
(* Cont(k) is "i + k < len && (bytes[i+k] & 0xC0) == 0x80".                *)
(***************************************************************************)
\* Mutant: the surrogate check (0xED followed by >= 0xA0) dropped.
RECURSIVE Utf8FromNoSurrogateCheck(_, _)
Utf8FromNoSurrogateCheck(b, i) ==
  IF i >= Len(b) THEN TRUE
  ELSE LET c       == b[i + 1]
           Cont(k) == i + k < Len(b) /\ IsCont(b[i + k + 1])
           Next1   == b[i + 2]
       IN CASE c <= 127                   -> Utf8FromNoSurrogateCheck(b, i + 1)
            [] c >= 245 \/ c \in 192..193 -> FALSE
            [] c \div 32 = 6              -> Cont(1) /\ Utf8FromNoSurrogateCheck(b, i + 2)
            [] c \div 16 = 14             ->
                 /\ Cont(1) /\ Cont(2) /\ ~(c = 224 /\ Next1 < 160)
                 /\ Utf8FromNoSurrogateCheck(b, i + 3)
            [] c \div 8 = 30              ->
                 /\ Cont(1) /\ Cont(2) /\ Cont(3)
                 /\ ~(c = 240 /\ Next1 < 144) /\ ~(c = 244 /\ Next1 > 143)
                 /\ Utf8FromNoSurrogateCheck(b, i + 4)
            [] OTHER                      -> FALSE

RECURSIVE Utf8From(_, _)
Utf8From(b, i) ==
  IF i >= Len(b) THEN TRUE
  ELSE LET c       == b[i + 1]
           Cont(k) == i + k < Len(b) /\ IsCont(b[i + k + 1])
           Next1   == b[i + 2]
       IN CASE c <= 127                        -> Utf8From(b, i + 1)
            [] c >= 245 \/ c \in 192..193      -> FALSE
            [] c \div 32 = 6                   -> Cont(1) /\ Utf8From(b, i + 2)
            [] c \div 16 = 14                  ->
                 /\ Cont(1) /\ Cont(2)
                 /\ ~(c = 224 /\ Next1 < 160)
                 /\ ~(c = 237 /\ Next1 >= 160)
                 /\ Utf8From(b, i + 3)
            [] c \div 8 = 30                   ->
                 /\ Cont(1) /\ Cont(2) /\ Cont(3)
                 /\ ~(c = 240 /\ Next1 < 144)
                 /\ ~(c = 244 /\ Next1 > 143)
                 /\ Utf8From(b, i + 4)
            [] OTHER                           -> FALSE

IsValidUtf8(b) == Utf8From(b, 0)

(***************************************************************************)
(* Incremental validator (Utf8Validator, spec section 4.A).  Its state is  *)
(* the pending bytes of a sequence not yet complete.  SecondRange is the   *)
(* range RFC 3629 allows the byte after each lead byte; SeqLen the length *)
(* a lead byte announces (0: not a lead byte).                             *)
(***************************************************************************)
SeqLen(c) ==
  CASE c <= 127          -> 1
    [] c \in 194..223    -> 2
    [] c \in 224..239    -> 3
    [] c \in 240..244    -> 4
    [] OTHER             -> 0

SecondRange(c) ==
  CASE c = 224 -> 160..191
    [] c = 237 -> 128..159
    [] c = 240 -> 144..191
    [] c = 244 -> 128..143
    [] OTHER   -> 128..191

\* t (non-empty, shorter than or as long as its lead announces) can still
\* be, or already is, one well-formed sequence.
WellFormedStart(t) ==
  /\ SeqLen(t[1]) >= Len(t)
  /\ Len(t) >= 2 => t[2] \in SecondRange(t[1])
  /\ \A k \in 3..Len(t) : IsCont(t[k])

\* Scan s: [ok |-> FALSE] at the first byte no sequence can follow,
\* otherwise ok with the incomplete tail still pending.
RECURSIVE Utf8Scan(_)
Utf8Scan(s) ==
  IF s = <<>> THEN [ok |-> TRUE, pending |-> <<>>]
  ELSE LET n == SeqLen(s[1])
           k == IF n = 0 THEN 1 ELSE IF n < Len(s) THEN n ELSE Len(s)
       IN CASE ~WellFormedStart(SubSeq(s, 1, k)) -> [ok |-> FALSE, pending |-> <<>>]
            [] k < n                             -> [ok |-> TRUE, pending |-> s]
            [] OTHER                             -> Utf8Scan(SubSeq(s, k + 1, Len(s)))

\* validateChunk: the new validator state, ok = FALSE on an invalid sequence.
Utf8Feed(pending, chunk) == Utf8Scan(pending \o chunk)

\* validateFinal: no sequence left incomplete.
Utf8Final(pending) == pending = <<>>

-----------------------------------------------------------------------------
(***************************************************************************)
(* Reference (RFC 3629, sections 3 and 4): decode each sequence to its     *)
(* code point and require the range its length may encode.                 *)
(***************************************************************************)
LeadOf(n, c) ==
  CASE n = 1 -> c < 128
    [] n = 2 -> c \div 32 = 6
    [] n = 3 -> c \div 16 = 14
    [] n = 4 -> c \div 8 = 30

CodePoint(u) ==
  LET leadBits == IF Len(u) = 1 THEN u[1] ELSE u[1] % (2 ^ (7 - Len(u)))
  IN FoldLeft(LAMBDA cp, c : cp * 64 + (c % 64), leadBits, Tail(u))

ScalarOfLength(cp, n) ==
  CASE n = 1 -> cp <= 127
    [] n = 2 -> 128 <= cp /\ cp <= 2047
    [] n = 3 -> 2048 <= cp /\ cp <= 65535 /\ ~(55296 <= cp /\ cp <= 57343)
    [] n = 4 -> 65536 <= cp /\ cp <= 1114111

EncodesScalar(u) ==
  /\ LeadOf(Len(u), u[1])
  /\ \A k \in 2..Len(u) : IsCont(u[k])
  /\ ScalarOfLength(CodePoint(u), Len(u))

RECURSIVE Utf8Ref(_)
Utf8Ref(s) ==
  \/ s = <<>>
  \/ \E n \in 1..4 :
       /\ n <= Len(s)
       /\ EncodesScalar(SubSeq(s, 1, n))
       /\ Utf8Ref(SubSeq(s, n + 1, Len(s)))

=============================================================================
