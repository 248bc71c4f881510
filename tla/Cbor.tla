--------------------------------- MODULE Cbor ---------------------------------
(***************************************************************************)
(* CBOR as the codecs of this crate see it: a sequence of tokens, read by  *)
(* minicbor's Decoder (an external library).  A token is a pair of its     *)
(* kind and its value; the bytes that spell a token are left out, so a     *)
(* chunk of the stream ends between two tokens.                            *)
(*                                                                         *)
(* A decoder is a record: the tokens still to read, the values read so far *)
(* and how it stands.  "end" is minicbor's end-of-input error, which the   *)
(* channel takes for "wait for more"; "bad" is every other error.          *)
(***************************************************************************)
EXTENDS Integers, Sequences, SequencesExt

Indefinite == -1                 \* the length of an indefinite array or string

Arr(n)   == <<"array", n>>
MapOf(n) == <<"map", n>>
Int64(n) == <<"int", n>>         \* Encoder::u8, u16, u64 and i64
Bool(b)  == <<"bool", b>>
Str(t)   == <<"str", t>>
Bytes(b) == <<"bytes", b>>
ByteRun  == <<"byterun", Indefinite>>   \* the head of a string in chunks
Tag(n)   == <<"tag", n>>
Break    == <<"break", Indefinite>>

U8  == 0..255
U16 == 0..65535

\* What Decoder::u8(), array(), str(), ... accepts.
Fits(token, want) ==
  CASE want = "u8"  -> token[1] = "int" /\ token[2] \in U8
    [] want = "u16" -> token[1] = "int" /\ token[2] \in U16
    [] want = "u64" -> token[1] = "int" /\ token[2] >= 0
    [] want = "i64" -> token[1] = "int"
    [] OTHER        -> token[1] = want

Decoder(tokens) == [rest |-> tokens, got |-> <<>>, st |-> "ok"]

AtEnd(d) == d.rest = <<>>
AtBreak(d) == d.st = "ok" /\ ~AtEnd(d) /\ Head(d.rest)[1] = "break"

Read(d, want) ==
  CASE d.st # "ok" -> d
    [] d.st = "ok" /\ AtEnd(d) -> [d EXCEPT !.st = "end"]
    [] d.st = "ok" /\ ~AtEnd(d) /\ ~Fits(Head(d.rest), want) -> [d EXCEPT !.st = "bad"]
    [] OTHER -> [d EXCEPT !.rest = Tail(@), !.got = Append(@, Head(d.rest)[2])]

Reads(d, wants) ==
  LET after[i \in 0..Len(wants)] == IF i = 0 THEN d ELSE Read(after[i - 1], wants[i])
  IN  after[Len(wants)]

\* The last value read must be in S, or the input is refused.
Expect(d, S) ==
  IF d.st = "ok" /\ Last(d.got) \notin S THEN [d EXCEPT !.st = "bad"] ELSE d

\* What was read between d and e is one value v.
Made(d, e, v) == IF e.st = "ok" THEN [e EXCEPT !.got = Append(d.got, v)] ELSE e

Since(d, e) == SubSeq(e.got, Len(d.got) + 1, Len(e.got))

\* A decoder whose steps T are over at i: after n items, with no token left, at
\* a break, at the end of the input or at an error.
Over(n, last, T, i) == i \in {n, last} \/ T[i].st # "ok"

FirstOver(n, last, T) ==
  CHOOSE i \in 0..last : Over(n, last, T, i) /\ \A j \in 0..(i - 1) : ~Over(n, last, T, j)

\* After the break that ends a list, decoding goes on.
WithoutBreak(e) == IF e.st = "done" THEN [e EXCEPT !.st = "ok"] ELSE e

\* All that was read between d and e, as a list.
Outcome(d, e) == Made(d, WithoutBreak(e), Since(d, WithoutBreak(e)))

\* n items, or items up to a break: array_iter(), bytes_iter() and the loops
\* written like them.
Items(d, n, Item(_)) ==
  LET last == Len(d.rest) + 1        \* every item takes a token
      after[i \in 0..last] ==
        IF i = 0 THEN d
        ELSE LET p == after[i - 1]
             IN IF n = Indefinite /\ AtBreak(p) THEN [p EXCEPT !.rest = Tail(@), !.st = "done"]
                ELSE Item(p)
  IN Outcome(d, after[FirstOver(n, last, after)])

ArrayOf(d, Item(_)) ==
  LET a == Read(d, "array")
  IN IF a.st # "ok" THEN a
     ELSE LET e == Items(a, Last(a.got), Item) IN Made(d, e, Last(e.got))

\* Decoder::skip() over one item of definite length.
Skip(d) ==
  LET left[i \in 0..Len(d.rest)] ==        \* items still to skip after i tokens
        IF i = 0 THEN 1
        ELSE left[i - 1] - 1 + (CASE d.rest[i][1] = "array" -> d.rest[i][2]
                                  [] d.rest[i][1] = "map" -> 2 * d.rest[i][2]
                                  [] d.rest[i][1] = "tag" -> 1
                                  [] OTHER -> 0)
      ends == {i \in 1..Len(d.rest) : left[i] = 0}
  IN CASE d.st # "ok" -> d
       [] d.st = "ok" /\ ends = {} -> [d EXCEPT !.st = "end"]
       [] OTHER -> LET i == CHOOSE i \in ends : \A j \in ends : i <= j
                   IN [d EXCEPT !.rest = SubSeq(@, i + 1, Len(@))]

\* A list as Encoder::array() writes it, or as the Haskell peers do: an array
\* of indefinite length unless it is empty.
List(form, items) ==
  IF form = "definite" \/ items = <<>>
  THEN <<Arr(Len(items))>> \o FlattenSeq(items)
  ELSE <<Arr(Indefinite)>> \o FlattenSeq(items) \o <<Break>>
================================================================================
