------------------------------- MODULE MC_Utf8 -------------------------------
(***************************************************************************)
(* Checks isValidUtf8 of the receiver against the RFC 3629 reference       *)
(* over every byte sequence up to MaxLen bytes drawn from Bytes: the       *)
(* boundary values of every range the validator distinguishes.             *)
(***************************************************************************)
EXTENDS Utf8

CONSTANTS Bytes, MaxLen

VARIABLE s

Init == s = <<>>

\* Extend the input by one byte; the enumeration stops at MaxLen.
Grow == /\ Len(s) < MaxLen
        /\ \E c \in Bytes : s' = Append(s, c)

Spec == Init /\ [][Grow]_s

\* WebSocketReceiver::isValidUtf8, which guards close reasons, accepts
\* exactly the byte sequences RFC 3629 calls well-formed: no overlong form,
\* no surrogate, nothing above U+10FFFF, no truncated sequence.
IsValidUtf8Correct == IsValidUtf8(s) = Utf8Ref(s)
=============================================================================
