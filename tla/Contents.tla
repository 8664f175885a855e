------------------------------ MODULE Contents ------------------------------
(***************************************************************************)
(* What a byte interval promises about its bytes: they are an array of as  *)
(* many bytes as the interval has addresses.  Bytes that were never given  *)
(* a value are zero, and nobody can tell them from bytes that were set to  *)
(* zero.  Each operation of a byte interval has its counterpart here, with *)
(* the arguments that determine the array that comes out; ByteVector       *)
(* compares every call with the counterpart of that call.                  *)
(***************************************************************************)
EXTENDS Naturals, Sequences

CONSTANT MaxSize    \* bound on the size of an interval

VARIABLE content

(* Give the array n bytes; new ones are zero. *)
Resized(n) == [k \in 1 .. n |-> IF k <= Len(content) THEN content[k] ELSE 0]

Resize(n) == content' = Resized(n)

(* Forget the bytes from n on, extending the array to n bytes if needed. *)
Forget(n) ==
    content' = [k \in 1 .. (IF n > Len(content) THEN n ELSE Len(content)) |->
                   IF k <= n /\ k <= Len(content) THEN content[k] ELSE 0]

Overwrite(i, w) ==
    /\ i + Len(w) <= Len(content)
    /\ content' = SubSeq(content, 1, i) \o w \o SubSeq(content, i + Len(w) + 1, Len(content))

Insert(i, w) ==
    /\ i <= Len(content) /\ Len(content) + Len(w) <= MaxSize
    /\ content' = SubSeq(content, 1, i) \o w \o SubSeq(content, i + 1, Len(content))

Erase(i, j) ==
    /\ i <= j /\ j <= Len(content)
    /\ content' = SubSeq(content, 1, i) \o SubSeq(content, j + 1, Len(content))
=============================================================================
