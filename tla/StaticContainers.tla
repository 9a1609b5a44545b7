--------------------------- MODULE StaticContainers ---------------------------
(***************************************************************************)
(* StaticVector<T, VecCapacity> and StaticString<StrCapacity>              *)
(* (containers.hpp): a size and inline storage, so that they can be        *)
(* members of a message.  Storage beyond the size keeps what it held.      *)
(* One of each, with every operation that changes them; ok is what the     *)
(* last one returned.  An argument may be a reference to an element of the *)
(* vector or a view of the string's own characters: assign and append copy *)
(* character by character from storage that they change.                   *)
(***************************************************************************)
EXTENDS Integers, Sequences

CONSTANTS
  VecCapacity, StrCapacity,
  Elem, ZeroElem,   \* values of type T, and T{}
  Char,             \* characters other than NUL
  Texts             \* the string_views that callers pass from elsewhere

NUL == 0

ASSUME ContainersAssumption ==
  /\ VecCapacity \in Nat \ {0} /\ StrCapacity \in Nat \ {0}
  /\ ZeroElem \in Elem /\ NUL \notin Char /\ Texts \subseteq Seq(Char)

VARIABLES vec, str, ok

containers == <<vec, str, ok>>

Vector == [data : [0 .. VecCapacity - 1 -> Elem], size : 0 .. VecCapacity]
String == [data : [0 .. StrCapacity -> Char \cup {NUL}], size : 0 .. StrCapacity]

\* The sequences that the containers stand for.
Items == [i \in 1 .. vec.size |-> vec.data[i - 1]]
view == [i \in 1 .. str.size |-> str.data[i - 1]]

-----------------------------------------------------------------------------
(***************************************************************************)
(* StaticVector.                                                           *)
(***************************************************************************)

\* Mutation: the storage is taken for one element longer than it is used.
mut_full_early == vec.size + 1 >= VecCapacity
full == vec.size >= VecCapacity

\* push_back(v), emplace_back(v)
push_back(v) ==
  /\ vec' = IF full THEN vec
            ELSE [data |-> [vec.data EXCEPT ![vec.size] = v], size |-> vec.size + 1]
  /\ ok' = ~full
  /\ UNCHANGED str

pop_back ==
  /\ vec' = [vec EXCEPT !.size = IF @ = 0 THEN 0 ELSE @ - 1]
  /\ ok' = (vec.size # 0)
  /\ UNCHANGED str

\* resize(n, v); v is read again for each new element.
resize(n, v) ==
  /\ vec' = IF n > VecCapacity THEN vec
            ELSE [data |-> [i \in DOMAIN vec.data |->
                              IF i \in vec.size .. n - 1 THEN v ELSE vec.data[i]],
                  size |-> n]
  /\ ok' = (n <= VecCapacity)
  /\ UNCHANGED str

\* Assignment through operator[], at, front, back, data or an iterator.
write_elem(i, v) ==
  /\ i < vec.size
  /\ vec' = [vec EXCEPT !.data[i] = v]
  /\ UNCHANGED <<str, ok>>

clear_vector == vec' = [vec EXCEPT !.size = 0] /\ UNCHANGED <<str, ok>>

-----------------------------------------------------------------------------
(***************************************************************************)
(* StaticString.  A source is a text, or the len characters of the string  *)
(* itself from off on.                                                     *)
(***************************************************************************)
TextSource(t) == [own |-> FALSE, off |-> 0, text |-> t, len |-> Len(t)]
OwnSource(o, n) == [own |-> TRUE, off |-> o, text |-> <<>>, len |-> n]
Sources ==
  {TextSource(t) : t \in Texts}
    \cup {OwnSource(o, n) : o \in 0 .. str.size, n \in 0 .. str.size}

Valid(src) == src.own => src.off + src.len <= str.size

\* sv[i], when the string's storage holds mem.
char(src, mem, i) == IF src.own THEN mem[src.off + i] ELSE src.text[i + 1]

\* The loop: n characters of sv to data_[dst], ...
copy(src, dst, n) ==
  LET after[k \in 0 .. n] ==
        IF k = 0 THEN str.data
        ELSE [after[k - 1] EXCEPT ![dst + k - 1] = char(src, after[k - 1], k - 1)]
  IN  after[n]

\* Mutation: the end is marked before the loop has read what is there.
mut_put_marks_first(src, dst, room) ==
  LET n == IF src.len < room THEN src.len ELSE room
      marked == [str.data EXCEPT ![dst + n] = NUL]
      after[k \in 0 .. n] ==
        IF k = 0 THEN marked
        ELSE [after[k - 1] EXCEPT ![dst + k - 1] = char(src, after[k - 1], k - 1)]
  IN  str' = [data |-> after[n], size |-> dst + n] /\ ok' = (src.len <= room)

\* Mutation: the end is not marked.
mut_put_unmarked(src, dst, room) ==
  LET n == IF src.len < room THEN src.len ELSE room
  IN  str' = [data |-> copy(src, dst, n), size |-> dst + n] /\ ok' = (src.len <= room)

\* Copy as much of sv as there is room for behind the first dst characters.
put(src, dst, room) ==
  LET n == IF src.len < room THEN src.len ELSE room
  IN  /\ str' = [data |-> [copy(src, dst, n) EXCEPT ![dst + n] = NUL],
                 size |-> dst + n]
      /\ ok' = (src.len <= room)

\* assign(sv), operator=(sv), the constructors
assign(src) == Valid(src) /\ put(src, 0, StrCapacity) /\ UNCHANGED vec

append(src) ==
  Valid(src) /\ put(src, str.size, StrCapacity - str.size) /\ UNCHANGED vec

write_char(i, c) ==
  /\ i < str.size
  /\ str' = [str EXCEPT !.data[i] = c]
  /\ UNCHANGED <<vec, ok>>

\* clear(), operator=(nullptr)
clear_string ==
  /\ str' = [data |-> [str.data EXCEPT ![0] = NUL], size |-> 0]
  /\ UNCHANGED <<vec, ok>>

-----------------------------------------------------------------------------
ContainersInit ==
  /\ vec = [data |-> [i \in 0 .. VecCapacity - 1 |-> ZeroElem], size |-> 0]
  /\ str = [data |-> [i \in 0 .. StrCapacity |-> NUL], size |-> 0]
  /\ ok = TRUE

ContainersNext ==
  \/ \E v \in Elem :
       \/ push_back(v) \/ \E n \in 0 .. VecCapacity + 1 : resize(n, v)
       \/ \E i \in 0 .. VecCapacity - 1 : write_elem(i, v)
  \/ pop_back \/ clear_vector
  \/ \E src \in Sources : assign(src) \/ append(src)
  \/ \E i \in 0 .. StrCapacity - 1, c \in Char : write_char(i, c)
  \/ clear_string

-----------------------------------------------------------------------------
(***************************************************************************)
(* Properties.                                                             *)
(***************************************************************************)

\* c_str() is the text that view() shows: the first NUL of the storage is
\* the one behind the text, "guaranteed to be null-terminated".
CStringIsView ==
  str.size = CHOOSE n \in 0 .. StrCapacity :
    str.data[n] = NUL /\ \A i \in 0 .. n - 1 : str.data[i] # NUL

Prefix(s, n) == SubSeq(s, 1, IF Len(s) < n THEN Len(s) ELSE n)

\* What a source shows before the call.
TextOf(src) ==
  IF src.own THEN SubSeq(view, src.off + 1, src.off + src.len) ELSE src.text

\* A changed text is what std::string would hold, cut to the capacity, and
\* the call reports whether it was cut: also when the argument is a view of
\* the text that is overwritten.
ActsAsString ==
  [][\A src \in Sources :
       /\ assign(src) => /\ view' = Prefix(TextOf(src), StrCapacity)
                         /\ ok' = (Len(TextOf(src)) <= StrCapacity)
       /\ append(src) => /\ view' = Prefix(view \o TextOf(src), StrCapacity)
                         /\ ok' = (Len(view \o TextOf(src)) <= StrCapacity)]_containers

\* The vector holds what std::vector would, except that a call that needs
\* more than the capacity changes nothing and says so.
ActsAsVector ==
  [][\A v \in Elem :
       /\ push_back(v) =>
            LET wanted == Append(Items, v)
            IN  Items' = (IF ok' THEN wanted ELSE Items) /\ ok' = (Len(wanted) <= VecCapacity)
       /\ \A n \in 0 .. VecCapacity + 1 : resize(n, v) =>
            LET wanted == [i \in 1 .. n |-> IF i <= Len(Items) THEN Items[i] ELSE v]
            IN  Items' = (IF ok' THEN wanted ELSE Items) /\ ok' = (n <= VecCapacity)
    ]_containers

=============================================================================
