------------------------------- MODULE Command -------------------------------
(***************************************************************************)
(* Decoding of a command: cw_unpack_next over the items of a MessagePack   *)
(* payload, and handle_incoming_command, which looks for the keys "enable" *)
(* and "i_target".                                                         *)
(*                                                                         *)
(* A payload is a sequence of items; the last may be cut off or malformed, *)
(* or have a length of 32 bits that, added to the address it stands at,    *)
(* wraps: the unpacker takes such an item for whole and goes on in front   *)
(* of it, in memory that the model says nothing about.                     *)
(*                                                                         *)
(* The item of the unpack context is a union.  What matters of its layout  *)
(* is the word that holds the length of a string: the handler reads it     *)
(* after the next item has been unpacked over the key.  A character string *)
(* is a sequence of letters, one of them NUL, and two letters stand for    *)
(* each name.                                                              *)
(***************************************************************************)
EXTENDS Integers, Sequences

CONSTANTS
    Keys,        \* strings that occur as keys
    Currents,    \* floats that occur as targets
    Sizes,       \* sizes a map may announce
    IntBits,     \* width of int
    MaxItems     \* bound: whole items behind the first

NUL == "0"
Enable == <<"e", "n">>
ITarget == <<"i", "t">>
CString(name) == Append(name, NUL)

ASSUME CommandAssumption ==
    /\ IntBits \in Nat \ {0, 1} /\ MaxItems \in Nat
    /\ Sizes \subseteq 0..(2^IntBits - 1)
    /\ Keys \subseteq Seq(STRING) /\ {Enable, ITarget} \subseteq Keys

Item(type, val) == [type |-> type, val |-> val, fit |-> "whole"]
Maps == {Item("MAP", n) : n \in Sizes}
Whole == {Item("STR", s) : s \in Keys} \cup {Item("BOOLEAN", v) : v \in BOOLEAN}
         \cup {Item("FLOAT", x) : x \in Currents}
         \cup {Item("MAP", 1), Item("INTEGER", 0), Item("NIL", 0)}
Broken == {[type |-> t, val |-> <<>>, fit |-> "broken"] :
               t \in {"CUT_OFF", "MALFORMED"}}

(* A length that wraps is larger than any string: of the bytes behind it   *)
(* only those count that decide a comparison with a name.                  *)
Wrapping == {[type |-> t, val |-> s, fit |-> "wraps"] :
                 t \in {"STR", "BIN"}, s \in {k \in Keys : Len(k) > Len(Enable)}}
Huge == 2^IntBits - 1

Items == Maps \cup Whole \cup Broken \cup Wrapping
Astray == 0      \* current, when it is not in front of an item of the payload

VARIABLES
    payload,             \* the bytes in sub_buffer, as items
    current, return_code, type, val, length,     \* the unpack context
    pc, num_items, i, key,                       \* the handler's locals
    enabled, i_target                            \* of the motor

uc == <<current, return_code, type, val, length>>
motor == <<enabled, i_target>>
vars == <<payload, uc, pc, num_items, i, key, motor>>

(* cw_unpack_context_init; the motor is stopped and its target is 0.       *)
Init ==
    /\ \/ \E head \in Maps, n \in 0..MaxItems,
             last \in {<<>>} \cup {<<it>> : it \in Broken \cup Wrapping} :
             \E body \in [1..n -> Whole] : payload = <<head>> \o body \o last
       \/ \E it \in Whole \cup Broken \cup Wrapping : payload = <<it>>
    /\ current = 1 /\ return_code = "OK"
    /\ type = "NOT_AN_ITEM" /\ val = 0 /\ length = 0
    /\ pc = "map" /\ num_items = 0 /\ i = 0 /\ key = <<>>
    /\ enabled = FALSE /\ i_target = 0

-----------------------------------------------------------------------------
(* cw_unpack_next.  An integer fills the whole union, so the upper half of *)
(* a small one clears the length; a Boolean, a float, nil or the size of a *)
(* container leave it as the item before had it.  What a broken item puts  *)
(* there is not modelled: no item follows, and it is not stored itself.    *)

(* Mutant of LengthAfter: a float overwrites the length as an integer does.*)
LengthAfterM(it) ==
    CASE it.fit = "wraps" -> Huge
      [] it.fit # "wraps" /\ it.type = "STR" -> Len(it.val)
      [] it.type \in {"INTEGER", "FLOAT"} -> 0
      [] OTHER -> length
LengthAfter(it) ==
    CASE it.fit = "wraps" -> Huge
      [] it.fit # "wraps" /\ it.type = "STR" -> Len(it.val)
      [] it.type = "INTEGER" -> 0
      [] OTHER -> length

(* UNPACK_ERROR                                                            *)
UnpackError(rc) ==
    type' = "NOT_AN_ITEM" /\ return_code' = rc /\ UNCHANGED <<current, val, length>>

(* cw_unpack_assert_space: an item that ends behind the input is an error; *)
(* one whose end wraps is not, and takes current with it.                  *)
Unpack(it) ==
    IF it.fit = "broken" THEN UnpackError("ERROR")
    ELSE /\ type' = it.type /\ val' = it.val /\ length' = LengthAfter(it)
         /\ current' = IF it.fit = "wraps" \/ current = Astray THEN Astray
                       ELSE current + 1
         /\ UNCHANGED return_code

(* Astray the unpacker may find any item, or its way to the end.           *)
cw_unpack_next ==
    \/ return_code # "OK" /\ UNCHANGED uc
    \/ return_code = "OK" /\ current \in 1..Len(payload) /\ Unpack(payload[current])
    \/ return_code = "OK" /\ current = Astray /\ \E it \in Items : Unpack(it)
    \/ /\ return_code = "OK" /\ (current = Astray \/ current > Len(payload))
       /\ UnpackError("END_OF_INPUT")

-----------------------------------------------------------------------------
(* handle_incoming_command                                                 *)

(* The size is 32 bits unsigned and num_items an int.                      *)
ToInt(n) == IF n >= 2^(IntBits - 1) THEN n - 2^IntBits ELSE n

(* strncmp(k, name, n) = 0: the first n characters are the same, or those  *)
(* up to the NUL at which both end.  The key is not terminated; n exceeds  *)
(* what is known of it only behind a longer string, which is stored        *)
(* nowhere.  Mutant: one character less is compared.                       *)
SameStartM(k, name, n) ==
    \A j \in 1..(n - 1) : j <= Len(name) + 1 => j <= Len(k) /\ k[j] = CString(name)[j]
SameStart(k, name, n) ==
    \A j \in 1..n : j <= Len(name) + 1 => j <= Len(k) /\ k[j] = CString(name)[j]

ReadMap ==
    /\ pc = "map"
    /\ cw_unpack_next
    /\ IF type' = "MAP" THEN pc' = "loop" /\ num_items' = ToInt(val')
                        ELSE pc' = "done" /\ UNCHANGED num_items
    /\ UNCHANGED <<payload, i, key, motor>>

ReadKey ==
    /\ pc = "loop" /\ i < num_items
    /\ cw_unpack_next
    /\ IF type' = "STR" THEN pc' = "value" /\ key' = val'
                        ELSE pc' = "done" /\ UNCHANGED key
    /\ UNCHANGED <<payload, num_items, i, motor>>

ReadValue ==
    /\ pc = "value"
    /\ cw_unpack_next
    /\ enabled' = IF SameStart(key, Enable, length') /\ type' = "BOOLEAN"
                  THEN val' ELSE enabled
    /\ i_target' = IF SameStart(key, ITarget, length') /\ type' = "FLOAT"
                   THEN val' ELSE i_target
    /\ i' = i + 1 /\ pc' = "loop"
    /\ UNCHANGED <<payload, num_items, key>>

EndOfLoop ==
    /\ pc = "loop" /\ i >= num_items
    /\ pc' = "done"
    /\ UNCHANGED <<payload, uc, num_items, i, key, motor>>

Next == ReadMap \/ ReadKey \/ ReadValue \/ EndOfLoop

Spec == Init /\ [][Next]_vars

-----------------------------------------------------------------------------
(* What a command means: the last value of the right type behind each name *)
(* among the pairs that arrived whole.                                     *)

(* A key that strncmp takes for the name: the start of it, or the name, a  *)
(* NUL and more.                                                           *)
Prefix(s, t) == Len(s) <= Len(t) /\ s = SubSeq(t, 1, Len(s))
Matches(s, name) == Prefix(s, name) \/ Prefix(CString(name), s)
Ambiguous(s) == s \notin {Enable, ITarget}
                /\ (Matches(s, Enable) \/ Matches(s, ITarget))

Arrived(n) == payload[n].fit = "whole"

Flat ==
    /\ payload[1].type = "MAP" /\ Arrived(1)
    /\ payload[1].val < 2^(IntBits - 1)
    /\ \A n \in 2..Len(payload) :
          /\ payload[n].fit # "wraps"
          /\ Arrived(n) =>
                IF n % 2 = 0 THEN payload[n].type = "STR" /\ ~Ambiguous(payload[n].val)
                             ELSE payload[n].type # "MAP"

Pairs == {k \in 1..payload[1].val : /\ 2 * k + 1 <= Len(payload)
                                    /\ Arrived(2 * k) /\ Arrived(2 * k + 1)}
Latest(S) == CHOOSE k \in S : \A j \in S : j <= k
Meaning(name, t, before) ==
    LET S == {k \in Pairs : payload[2 * k].val = name
                            /\ payload[2 * k + 1].type = t}
    IN IF S = {} THEN before ELSE payload[2 * Latest(S) + 1].val

(* A flat command whose keys are names or match none sets exactly what it  *)
(* says: repeated keys, values of the wrong type, a size that is too large *)
(* or too small and a payload that ends in the middle of a pair included;  *)
(* no length wraps.  It rests on the length of the key surviving in the    *)
(* union while the value is unpacked over it (main.c:97-105).              *)
CommandIsApplied ==
    pc = "done" /\ Flat =>
        /\ enabled = Meaning(Enable, "BOOLEAN", FALSE)
        /\ i_target = Meaning(ITarget, "FLOAT", 0)

Behind(name, t, v) ==
    \E n \in 2..(Len(payload) - 1) :
        /\ payload[n].type = "STR" /\ Matches(payload[n].val, name)
        /\ payload[n + 1] = Item(t, v)

(* Whatever the payload (nested containers that are not skipped, items cut *)
(* off, an unpacker that keeps failing, strings with a NUL inside), a      *)
(* store takes its value from an item that arrived whole directly behind a *)
(* string that strncmp takes for the name.  This holds until a length      *)
(* wraps (cwpack_defines.h:300): nothing is said of what the unpacker      *)
(* delivers astray.                                                        *)
StoresComeFromPayload ==
    [][current # Astray =>
         /\ enabled' # enabled => Behind(Enable, "BOOLEAN", enabled')
         /\ i_target' # i_target => Behind(ITarget, "FLOAT", i_target')]_vars
=============================================================================
