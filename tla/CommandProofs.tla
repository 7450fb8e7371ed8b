---------------------------- MODULE CommandProofs ----------------------------
(***************************************************************************)
(* Proofs that every store a command makes takes its value from the        *)
(* payload, and that a flat command is applied as it reads, for payloads   *)
(* of every length.                                                        *)
(***************************************************************************)
EXTENDS Command, TLAPS

(* What the unpack context holds between two calls of cw_unpack_next: an   *)
(* error is sticky and has wiped the type, and while a value is due and no *)
(* length has wrapped the last item is the key, whole, with its length in  *)
(* the union.                                                              *)
Inv ==
    /\ payload \in Seq(Items)
    /\ current \in Nat
    /\ return_code # "OK" => type = "NOT_AN_ITEM"
    /\ pc = "map" => return_code = "OK" /\ current = 1
    /\ pc = "loop" /\ current # Astray => current >= 2
    /\ pc = "value" => return_code = "OK"
    /\ pc = "value" /\ current # Astray =>
          /\ current >= 3 /\ current - 1 \in 1..Len(payload)
          /\ payload[current - 1] = Item("STR", key)
          /\ key \in Keys /\ length = Len(key)

(* An item that arrived whole is known by its type and its value, and a    *)
(* string among them is a key; a length that wraps is that of a string or  *)
(* a blob.                                                                 *)
LEMMA WholeItem ==
    ASSUME NEW it \in Items
    PROVE  /\ it.fit \in {"whole", "broken", "wraps"}
           /\ it.type # "NOT_AN_ITEM"
           /\ it.fit = "whole" => /\ it = Item(it.type, it.val)
                                  /\ it.type = "STR" => it.val \in Keys
           /\ it.fit = "wraps" => it.type \in {"STR", "BIN"}
  BY DEF Items, Maps, Whole, Broken, Wrapping, Item

(* The unpack context is set up in front of the first item.                *)
LEMMA InvInit == Init => Inv
  <1> SUFFICES ASSUME Init PROVE Inv
    OBVIOUS
  <1>0. /\ Maps \subseteq Items /\ Whole \subseteq Items
        /\ Broken \cup Wrapping \subseteq Items
        /\ \A it \in Items : <<it>> \in Seq(Items)
    BY DEF Items
  <1>1. payload \in Seq(Items)
    <2>1. CASE \E it \in Whole \cup Broken \cup Wrapping : payload = <<it>>
      BY <1>0, <2>1, Zenon
    <2>2. CASE \E head \in Maps, n \in 0..MaxItems,
                  last \in {<<>>} \cup {<<it>> : it \in Broken \cup Wrapping} :
                  \E body \in [1..n -> Whole] : payload = <<head>> \o body \o last
      <3>1. PICK head \in Maps, n \in 0..MaxItems,
                 last \in {<<>>} \cup {<<it>> : it \in Broken \cup Wrapping} :
               \E body \in [1..n -> Whole] : payload = <<head>> \o body \o last
        BY <2>2
      <3>2. PICK body \in [1..n -> Whole] : payload = <<head>> \o body \o last
        BY <3>1
      <3>3. <<head>> \in Seq(Items)
        BY <1>0
      <3>4. last \in Seq(Items)
        <4>1. <<>> \in Seq(Items)
          OBVIOUS
        <4>2. CASE last = <<>>
          BY <4>1, <4>2
        <4>3. CASE last \in {<<it>> : it \in Broken \cup Wrapping}
          BY <1>0, <4>3, Zenon
        <4> QED BY <4>2, <4>3
      <3>5. body \in Seq(Items)
        <4>1. n \in Nat /\ body \in [1..n -> Items]
          BY <1>0, CommandAssumption
        <4> QED BY <4>1
      <3> QED BY <3>2, <3>3, <3>4, <3>5
    <2> QED BY <2>1, <2>2 DEF Init
  <1> QED BY <1>1 DEF Init, Inv, Astray

(* One call of cw_unpack_next fails, delivers the item it is at, or takes  *)
(* a length that wraps and is astray from then on.                         *)
LEMMA Unpacked ==
    ASSUME Inv, cw_unpack_next
    PROVE  /\ current' \in Nat
           /\ return_code' # "OK" => type' = "NOT_AN_ITEM"
           /\ return_code' = "OK" => return_code = "OK"
           /\ current' # Astray => current # Astray /\ current' >= current
           /\ current' # Astray /\ return_code' = "OK" =>
                 /\ current \in 1..Len(payload)
                 /\ current' = current + 1
                 /\ payload[current] \in Items
                 /\ payload[current] = Item(type', val')
                 /\ type' = "STR" => val' \in Keys
                 /\ length' = LengthAfter(payload[current])
           /\ current # Astray /\ current' = Astray =>
                 /\ current \in 1..Len(payload) /\ payload[current].fit = "wraps"
                 /\ type' \in {"STR", "BIN"}
  <1>0. current \in Nat /\ Astray = 0
    BY DEF Inv, Astray
  <1>1. CASE return_code # "OK" /\ UNCHANGED uc
    BY <1>0, <1>1 DEF uc, Inv
  <1>2. CASE return_code = "OK" /\ UnpackError("END_OF_INPUT")
    BY <1>0, <1>2 DEF UnpackError
  <1>3. CASE return_code = "OK" /\ current \in 1..Len(payload) /\ Unpack(payload[current])
    <2>1. current \in 1..Len(payload) /\ payload[current] \in Items
      BY <1>3 DEF Inv
    <2> DEFINE it == payload[current]
    <2>2. /\ it.fit \in {"whole", "broken", "wraps"}
          /\ it.fit = "whole" => /\ it = Item(it.type, it.val)
                                 /\ it.type = "STR" => it.val \in Keys
          /\ it.fit = "wraps" => it.type \in {"STR", "BIN"}
      BY <2>1, WholeItem
    <2>3. CASE it.fit = "broken"
      BY <1>0, <1>3, <2>3 DEF Unpack, UnpackError
    <2>4. CASE it.fit = "whole"
      <3>1. /\ type' = it.type /\ val' = it.val /\ length' = LengthAfter(it)
            /\ current' = current + 1 /\ return_code' = return_code
        BY <1>0, <1>3, <2>4 DEF Unpack
      <3> QED BY <1>0, <1>3, <2>1, <2>2, <2>4, <3>1
    <2>5. CASE it.fit = "wraps"
      <3>1. type' = it.type /\ current' = Astray /\ return_code' = return_code
        BY <1>3, <2>5 DEF Unpack
      <3> QED BY <1>0, <1>3, <2>2, <2>5, <3>1
    <2> QED BY <2>2, <2>3, <2>4, <2>5
  <1>4. CASE return_code = "OK" /\ current = Astray /\ \E it \in Items : Unpack(it)
    <2>1. PICK it \in Items : Unpack(it)
      BY <1>4
    <2>2. current' = Astray /\ (return_code' # "OK" => type' = "NOT_AN_ITEM")
      BY <1>4, <2>1 DEF Unpack, UnpackError
    <2> QED BY <1>0, <1>4, <2>2
  <1> QED BY <1>1, <1>2, <1>3, <1>4 DEF cw_unpack_next

(* The letters of keys and names.                                          *)
Letters == STRING \cup {NUL}

(* A key's characters are compared up to its end or the name's NUL.        *)
LEMMA StartMatches ==
    ASSUME NEW k \in Seq(Letters), NEW name \in Seq(Letters)
    PROVE  SameStart(k, name, Len(k)) <=> Matches(k, name)
  <1>1. /\ CString(name) \in Seq(Letters) /\ Len(CString(name)) = Len(name) + 1
        /\ \A j \in 1..Len(name) : CString(name)[j] = name[j]
    <2>1. NUL \in Letters
      BY DEF Letters
    <2>2. /\ Append(name, NUL) \in Seq(Letters) /\ Len(Append(name, NUL)) = Len(name) + 1
          /\ \A j \in 1..Len(name) : Append(name, NUL)[j] = name[j]
      BY <2>1
    <2> QED BY <2>2 DEF CString
  <1>2. ASSUME NEW s \in Seq(Letters), NEW t \in Seq(Letters)
        PROVE  Prefix(s, t) <=> /\ Len(s) <= Len(t)
                                /\ \A j \in 1..Len(s) : s[j] = t[j]
    <2>1. CASE Len(s) <= Len(t)
      <3> DEFINE u == SubSeq(t, 1, Len(s))
      <3>1. /\ u \in Seq(Letters) /\ Len(u) = Len(s)
            /\ \A j \in 1..Len(s) : u[j] = t[j]
        BY <2>1
      <3> HIDE DEF u
      <3>2. s = u <=> \A j \in 1..Len(s) : s[j] = u[j]
        BY <3>1
      <3>3. Prefix(s, t) <=> s = u
        BY <2>1 DEF Prefix, u
      <3> QED BY <2>1, <3>1, <3>2, <3>3
    <2>2. CASE ~(Len(s) <= Len(t))
      BY <2>2 DEF Prefix
    <2> QED BY <2>1, <2>2
  <1>3. CASE Len(k) <= Len(name)
    <2>1. SameStart(k, name, Len(k)) <=> \A j \in 1..Len(k) : k[j] = name[j]
      <3>1. \A j \in 1..Len(k) : j <= Len(name) + 1 /\ j <= Len(k) /\ j \in 1..Len(name)
        BY <1>3
      <3>2. \A j \in 1..Len(k) : CString(name)[j] = name[j]
        BY <1>1, <3>1
      <3> QED BY <3>1, <3>2 DEF SameStart
    <2>2. ~Prefix(CString(name), k)
      BY <1>1, <1>2, <1>3
    <2> QED BY <1>2, <1>3, <2>1, <2>2 DEF Matches
  <1>4. CASE Len(k) > Len(name)
    <2>1. SameStart(k, name, Len(k)) <=>
              \A j \in 1..(Len(name) + 1) : k[j] = CString(name)[j]
      BY <1>4 DEF SameStart
    <2>2. ~Prefix(k, name)
      BY <1>2, <1>4
    <2>3. Prefix(CString(name), k) <=>
              \A j \in 1..(Len(name) + 1) : k[j] = CString(name)[j]
      BY <1>1, <1>2, <1>4
    <2> QED BY <2>1, <2>2, <2>3 DEF Matches
  <1> QED BY <1>3, <1>4

(* The invariant is preserved by every step of the handler.                *)
LEMMA InvNext == Inv /\ [Next]_vars => Inv'
  <1> SUFFICES ASSUME Inv, [Next]_vars PROVE Inv'
    OBVIOUS
  <1>1. CASE ReadMap
    <2>1. payload' = payload /\ cw_unpack_next /\ return_code = "OK"
      BY <1>1 DEF ReadMap, Inv
    <2>2. current' # Astray /\ type' = "MAP" => current' >= 2
      BY <1>1, <2>1, Unpacked DEF ReadMap, Inv
    <2>3. pc' \in {"loop", "done"} /\ (pc' = "loop" => type' = "MAP")
      BY <1>1 DEF ReadMap
    <2> QED BY <2>1, <2>2, <2>3, Unpacked DEF Inv
  <1>2. CASE ReadKey
    <2>1. payload' = payload /\ cw_unpack_next /\ (current # Astray => current >= 2)
      BY <1>2 DEF ReadKey, Inv
    <2>2. CASE type' = "STR" /\ current' = Astray
      <3>1. return_code' = "OK" /\ pc' = "value"
        BY <1>2, <2>1, <2>2, Unpacked DEF ReadKey
      <3> QED BY <2>1, <2>2, <3>1, Unpacked DEF Inv
    <2>3. CASE type' = "STR" /\ current' # Astray
      <3>1. /\ return_code' = "OK" /\ current' = current + 1 /\ current # Astray
            /\ current \in 1..Len(payload)
            /\ payload[current] = Item("STR", val') /\ val' \in Keys
            /\ length' = LengthAfter(payload[current])
        BY <2>1, <2>3, Unpacked
      <3>2. length' = Len(val')
        BY <3>1 DEF LengthAfter, Item
      <3>3. pc' = "value" /\ key' = val'
        BY <1>2, <2>3 DEF ReadKey
      <3>4. current' \in Nat
        BY <2>1, Unpacked
      <3> QED BY <2>1, <3>1, <3>2, <3>3, <3>4 DEF Inv
    <2>4. CASE type' # "STR"
      <3>1. pc' = "done"
        BY <1>2, <2>4 DEF ReadKey
      <3> QED BY <2>1, <3>1, Unpacked DEF Inv
    <2> QED BY <2>2, <2>3, <2>4
  <1>3. CASE ReadValue
    <2>1. /\ payload' = payload /\ cw_unpack_next /\ pc' = "loop"
          /\ current # Astray => current >= 3
      BY <1>3 DEF ReadValue, Inv
    <2> QED BY <2>1, Unpacked DEF Inv
  <1>4. CASE EndOfLoop
    BY <1>4 DEF EndOfLoop, uc, Inv
  <1>5. CASE UNCHANGED vars
    BY <1>5 DEF vars, uc, Inv
  <1> QED BY <1>1, <1>2, <1>3, <1>4, <1>5 DEF Next

(* Every key is a sequence of letters.                                     *)
LEMMA KeysAreLetters == Keys \subseteq Seq(Letters)
  <1>1. STRING \subseteq Letters
    BY DEF Letters
  <1>2. ASSUME NEW s \in Seq(STRING) PROVE s \in Seq(Letters)
    <2>1. Len(s) \in Nat /\ s \in [1..Len(s) -> STRING]
      OBVIOUS
    <2>2. s \in [1..Len(s) -> Letters]
      BY <1>1, <2>1
    <2> QED BY <2>1, <2>2
  <1> QED BY <1>2, CommandAssumption

(* A value that is stored under a name stands behind a string that         *)
(* strncmp takes for the name.                                             *)
LEMMA StoreIsBehind ==
    ASSUME Inv, ReadValue, current # Astray,
           NEW name \in Keys, NEW t \in {"BOOLEAN", "FLOAT"},
           SameStart(key, name, length'), type' = t
    PROVE  Behind(name, t, val')
  <1>1. cw_unpack_next /\ pc = "value"
    BY DEF ReadValue
  <1>2. return_code' = "OK" /\ current' # Astray
    BY <1>1, Unpacked
  <1>3. /\ current \in 1..Len(payload) /\ payload[current] = Item(t, val')
        /\ length' = LengthAfter(payload[current])
    BY <1>1, <1>2, Unpacked
  <1>4. length' = length
    BY <1>3 DEF LengthAfter, Item
  <1>5. /\ current - 1 \in 2..(Len(payload) - 1)
        /\ payload[current - 1] = Item("STR", key)
        /\ key \in Keys /\ length = Len(key)
    BY <1>1, <1>3 DEF Inv
  <1>6. key \in Seq(Letters) /\ name \in Seq(Letters)
    BY <1>5, KeysAreLetters
  <1>7. Matches(key, name)
    BY <1>4, <1>5, <1>6, StartMatches
  <1>8. payload[current - 1].type = "STR" /\ payload[current - 1].val = key
    BY <1>5 DEF Item
  <1>9. payload[(current - 1) + 1] = Item(t, val')
    BY <1>3
  <1> QED BY <1>5, <1>7, <1>8, <1>9 DEF Behind

(* For every set of keys, every payload and every width of int, a command  *)
(* stores only values that stand whole in its payload behind a string that *)
(* strncmp takes for the name they are stored under, until the unpacker    *)
(* has taken a length that wraps.                                          *)
THEOREM CommandStores == Spec => StoresComeFromPayload
  <1> DEFINE Step ==
        current # Astray =>
          /\ enabled' # enabled => Behind(Enable, "BOOLEAN", enabled')
          /\ i_target' # i_target => Behind(ITarget, "FLOAT", i_target')
  <1>1. Inv /\ [Next]_vars => [Step]_vars
    <2> SUFFICES ASSUME Inv, Next, current # Astray
                 PROVE  /\ enabled' # enabled => Behind(Enable, "BOOLEAN", enabled')
                        /\ i_target' # i_target => Behind(ITarget, "FLOAT", i_target')
      OBVIOUS
    <2>1. CASE ReadValue
      <3>1. Enable \in Keys /\ ITarget \in Keys
        BY CommandAssumption
      <3>2. ASSUME enabled' # enabled PROVE Behind(Enable, "BOOLEAN", enabled')
        <4>1. /\ SameStart(key, Enable, length') /\ type' = "BOOLEAN"
              /\ enabled' = val'
          BY <2>1, <3>2 DEF ReadValue
        <4> QED BY <2>1, <3>1, <4>1, StoreIsBehind
      <3>3. ASSUME i_target' # i_target PROVE Behind(ITarget, "FLOAT", i_target')
        <4>1. /\ SameStart(key, ITarget, length') /\ type' = "FLOAT"
              /\ i_target' = val'
          BY <2>1, <3>3 DEF ReadValue
        <4> QED BY <2>1, <3>1, <4>1, StoreIsBehind
      <3> QED BY <3>2, <3>3
    <2>2. CASE ReadMap \/ ReadKey \/ EndOfLoop
      BY <2>2 DEF ReadMap, ReadKey, EndOfLoop, motor
    <2> QED BY <2>1, <2>2 DEF Next
  <1> QED BY <1>1, InvInit, InvNext, PTL DEF Spec, StoresComeFromPayload

-----------------------------------------------------------------------------
(* What the first m pairs of the payload mean.                             *)
Hits(name, t, m) == {k \in Pairs : /\ k <= m /\ payload[2 * k].val = name
                                   /\ payload[2 * k + 1].type = t}

MeaningAt(name, t, before, m) ==
    IF Hits(name, t, m) = {} THEN before
    ELSE payload[2 * Latest(Hits(name, t, m)) + 1].val

AppliedUpTo(m) ==
    /\ enabled = MeaningAt(Enable, "BOOLEAN", FALSE, m)
    /\ i_target = MeaningAt(ITarget, "FLOAT", 0, m)

Applied ==
    /\ enabled = Meaning(Enable, "BOOLEAN", FALSE)
    /\ i_target = Meaning(ITarget, "FLOAT", 0)

(* Only the last item can be broken or have a length that wraps.           *)
OnlyLastBroken == \A n \in 2..(Len(payload) - 1) : Arrived(n)

(* While the handler runs over a flat command, the motor is what the pairs *)
(* so far mean and the unpacker stands where the next pair begins; once    *)
(* the unpacker has failed there are no further pairs.                     *)
Progress ==
    /\ OnlyLastBroken
    /\ Flat =>
          /\ i \in Nat
          /\ pc = "map" => i = 0 /\ current = 1 /\ AppliedUpTo(0)
          /\ pc \in {"loop", "value"} => num_items = payload[1].val
          /\ pc = "loop" /\ return_code = "OK" => current = 2 * i + 2 /\ AppliedUpTo(i)
          /\ pc = "loop" /\ return_code # "OK" => Applied
          /\ pc = "value" => current = 2 * i + 3 /\ i < num_items /\ AppliedUpTo(i)
          /\ pc = "done" => Applied

(* The last hit among the first m + 1 pairs is pair m + 1 if that is one.  *)
LEMMA MeaningStep ==
    ASSUME NEW m \in Nat, m + 1 \in Pairs, NEW name, NEW t, NEW before
    PROVE  MeaningAt(name, t, before, m + 1) =
               IF /\ payload[2 * (m + 1)].val = name
                  /\ payload[2 * (m + 1) + 1].type = t
               THEN payload[2 * (m + 1) + 1].val
               ELSE MeaningAt(name, t, before, m)
  <1>1. Pairs \subseteq Nat
    BY DEF Pairs
  <1>2. CASE payload[2 * (m + 1)].val = name /\ payload[2 * (m + 1) + 1].type = t
    <2> DEFINE S == Hits(name, t, m + 1)
    <2>1. m + 1 \in S /\ \A j \in S : j \in Nat /\ j <= m + 1
      BY <1>1, <1>2 DEF Hits
    <2> HIDE DEF S
    <2>2. Latest(S) = m + 1
      <3>1. \A k \in S : (\A j \in S : j <= k) => k = m + 1
        BY <2>1
      <3>2. \A j \in S : j <= m + 1
        BY <2>1
      <3> QED
        BY <2>1, <3>1, <3>2 DEF Latest
    <2> QED
      BY <1>2, <2>1, <2>2 DEF MeaningAt, S
  <1>3. CASE ~(payload[2 * (m + 1)].val = name /\ payload[2 * (m + 1) + 1].type = t)
    <2>1. Hits(name, t, m + 1) = Hits(name, t, m)
      <3>1. \A k \in Pairs : k <= m + 1 <=> k <= m \/ k = m + 1
        BY <1>1
      <3> QED
        BY <1>3, <3>1 DEF Hits
    <2> QED
      BY <1>3, <2>1 DEF MeaningAt
  <1> QED
    BY <1>2, <1>3

(* When there are no pairs behind the first m, these are the meaning.      *)
LEMMA NoMorePairs ==
    ASSUME NEW m \in Nat, \A k \in Pairs : k <= m, AppliedUpTo(m)
    PROVE  Applied
  <1>1. ASSUME NEW name, NEW t, NEW before
        PROVE  MeaningAt(name, t, before, m) = Meaning(name, t, before)
    <2>1. Hits(name, t, m) = {k \in Pairs : payload[2 * k].val = name
                                            /\ payload[2 * k + 1].type = t}
      BY DEF Hits
    <2> QED
      BY <2>1 DEF MeaningAt, Meaning
  <1> QED
    BY <1>1 DEF AppliedUpTo, Applied

(* Once the unpacker fails in pair m + 1 there is no such pair nor a later *)
(* one: the payload ends there.                                            *)
LEMMA FailEnds ==
    ASSUME Inv, OnlyLastBroken, NEW m \in Nat, cw_unpack_next,
           return_code = "OK", return_code' # "OK",
           current = 2 * m + 2 \/ current = 2 * m + 3
    PROVE  \A k \in Pairs : k <= m
  <1> SUFFICES ASSUME NEW k \in Pairs, k > m PROVE FALSE
    BY DEF Pairs
  <1>1. /\ k \in Nat /\ k >= m + 1 /\ 2 * k + 1 <= Len(payload) /\ Len(payload) \in Nat
        /\ payload[2 * k + 1].fit = "whole"
    BY DEF Pairs, Inv, Arrived
  <1>2. current \in 2..Len(payload)
    BY <1>1 DEF Inv
  <1>3. payload[current].fit = "broken"
    BY <1>2 DEF cw_unpack_next, Unpack, Astray, Inv
  <1>4. ~(current \in 2..(Len(payload) - 1))
    BY <1>3 DEF OnlyLastBroken, Arrived
  <1>5. current = 2 * k + 1
    BY <1>1, <1>2, <1>4
  <1> QED
    BY <1>1, <1>3, <1>5

(* A key that matches no name, or is one, is compared as a whole.          *)
LEMMA KeyIsName ==
    ASSUME NEW k \in Keys, ~Ambiguous(k)
    PROVE  /\ SameStart(k, Enable, Len(k)) <=> k = Enable
           /\ SameStart(k, ITarget, Len(k)) <=> k = ITarget
  <1>1. k \in Seq(Letters) /\ Enable \in Seq(Letters) /\ ITarget \in Seq(Letters)
    BY KeysAreLetters, CommandAssumption
  <1>2. /\ Len(Enable) = 2 /\ Len(ITarget) = 2 /\ Enable[1] = "e" /\ ITarget[1] = "i"
        /\ Len(CString(Enable)) = 3 /\ Len(CString(ITarget)) = 3
    BY DEF Enable, ITarget, CString
  <1>3. \A s \in Seq(Letters) : SubSeq(s, 1, Len(s)) = s
    OBVIOUS
  <1>4. /\ SameStart(k, Enable, Len(k)) <=> Matches(k, Enable)
        /\ SameStart(k, ITarget, Len(k)) <=> Matches(k, ITarget)
    BY <1>1, StartMatches
  <1>5. ~Matches(Enable, ITarget) /\ ~Matches(ITarget, Enable)
    <2>1. Enable # ITarget
      BY <1>2
    <2>2. SubSeq(ITarget, 1, 2) = ITarget /\ SubSeq(Enable, 1, 2) = Enable
      BY <1>1, <1>2, <1>3
    <2>3. ~Prefix(Enable, ITarget) /\ ~Prefix(ITarget, Enable)
      BY <1>2, <2>1, <2>2 DEF Prefix
    <2>4. ~Prefix(CString(ITarget), Enable) /\ ~Prefix(CString(Enable), ITarget)
      BY <1>2 DEF Prefix
    <2> QED
      BY <2>3, <2>4 DEF Matches
  <1>6. Matches(Enable, Enable) /\ Matches(ITarget, ITarget)
    BY <1>1, <1>2, <1>3 DEF Prefix, Matches
  <1> QED
    BY <1>4, <1>5, <1>6 DEF Ambiguous

(* No length of a flat command wraps, so the unpacker does not go astray.  *)
LEMMA FlatStays ==
    ASSUME Inv, Flat, cw_unpack_next, current # Astray
    PROVE  current' # Astray
  <1> SUFFICES ASSUME current' = Astray PROVE FALSE
    OBVIOUS
  <1>1. current \in 1..Len(payload) /\ payload[current].fit = "wraps"
    BY Unpacked
  <1>2. current = 1 \/ current \in 2..Len(payload)
    BY <1>1 DEF Inv
  <1> QED
    BY <1>1, <1>2 DEF Flat, Arrived

(* The size of a flat command fits an int.                                 *)
LEMMA FlatSize ==
    ASSUME Inv, Flat, 1 \in 1..Len(payload)
    PROVE  /\ payload[1].val \in Nat
           /\ ToInt(payload[1].val) = payload[1].val
  <1>1. payload[1].val \in Nat
    <2>1. payload[1] \in Items /\ payload[1].type = "MAP"
      BY DEF Inv, Flat
    <2>2. payload[1].val \in Sizes \cup {1}
      BY <2>1 DEF Items, Maps, Whole, Broken, Wrapping, Item
    <2>3. \A n \in 0..(2^IntBits - 1) : n \in Nat
      OBVIOUS
    <2> QED
      <3>1. Sizes \subseteq Nat
        BY <2>3, CommandAssumption, Zenon
      <3>2. \A v \in Sizes \cup {1} : v \in Nat
        BY <3>1
      <3> QED
        BY <2>2, <3>2, Zenon
  <1>2. ToInt(payload[1].val) = payload[1].val
    <2> DEFINE half == 2^(IntBits - 1)
    <2>1. half \in Int
      <3>1. IntBits - 1 \in Nat
        BY CommandAssumption
      <3> QED
        BY <3>1
    <2>2. payload[1].val < half
      BY DEF Flat
    <2>3. ToInt(payload[1].val) = IF payload[1].val >= half
                                  THEN payload[1].val - 2^IntBits ELSE payload[1].val
      BY DEF ToInt
    <2> HIDE DEF half
    <2> QED
      BY <1>1, <2>1, <2>2, <2>3
  <1> QED
    BY <1>1, <1>2

(* The payload of every command has a first item, and broken items only at *)
(* its end.                                                                *)
LEMMA ProgressInit == Init => Progress
  <1> SUFFICES ASSUME Init PROVE Progress
    OBVIOUS
  <1>1. OnlyLastBroken
    <2>1. CASE \E it \in Whole \cup Broken \cup Wrapping : payload = <<it>>
      <3>1. Len(payload) = 1
        BY <2>1
      <3> QED BY <3>1 DEF OnlyLastBroken
    <2>2. CASE \E head \in Maps, n \in 0..MaxItems,
                  last \in {<<>>} \cup {<<it>> : it \in Broken \cup Wrapping} :
                  \E body \in [1..n -> Whole] : payload = <<head>> \o body \o last
      <3>1. PICK head \in Maps, n \in 0..MaxItems,
                 last \in {<<>>} \cup {<<it>> : it \in Broken \cup Wrapping} :
               \E body \in [1..n -> Whole] : payload = <<head>> \o body \o last
        BY <2>2, Zenon
      <3>2. PICK body \in [1..n -> Whole] : payload = <<head>> \o body \o last
        BY <3>1, Zenon
      <3>3. n \in Nat
        BY CommandAssumption
      <3>4. \A it \in Whole : it.fit = "whole"
        BY DEF Whole, Item
      <3>5. Len(last) \in {0, 1}
        OBVIOUS
      <3>6. /\ Len(payload) = 1 + n + Len(last)
            /\ \A j \in 2..(n + 1) : payload[j] = body[j - 1]
        BY <3>2, <3>3, <3>5
      <3>7. \A j \in 2..(n + 1) : payload[j].fit = "whole"
        BY <3>3, <3>4, <3>6
      <3>8. Len(payload) - 1 <= n + 1 /\ Len(payload) \in Nat
        <4> DEFINE l == Len(last)
        <4>1. l \in {0, 1} /\ Len(payload) = 1 + n + l
          BY <3>5, <3>6
        <4> HIDE DEF l
        <4> QED
          BY <3>3, <4>1
      <3> QED
        BY <3>3, <3>7, <3>8 DEF OnlyLastBroken, Arrived
    <2> QED
      BY <2>1, <2>2, Zenon DEF Init
  <1>2. AppliedUpTo(0)
    <2>1. \A name, t : Hits(name, t, 0) = {}
      BY DEF Hits, Pairs
    <2> QED
      BY <2>1 DEF AppliedUpTo, MeaningAt, Init
  <1> QED
    BY <1>1, <1>2 DEF Progress, Init

(* Every step of the handler keeps the motor in line with the pairs read.  *)
LEMMA ProgressKept ==
    ASSUME Inv, Inv', Progress, [Next]_vars
    PROVE  Progress'
  <1>1. payload' = payload
    BY DEF Next, ReadMap, ReadKey, ReadValue, EndOfLoop, vars
  <1>2. /\ OnlyLastBroken' /\ (Flat' <=> Flat) /\ Pairs' = Pairs
        /\ \A m : UNCHANGED motor => (AppliedUpTo(m) => AppliedUpTo(m)')
        /\ UNCHANGED motor => (Applied => Applied')
    <2>1. OnlyLastBroken'
      BY <1>1 DEF OnlyLastBroken, Arrived, Progress
    <2>2. Flat' <=> Flat
      BY <1>1 DEF Flat, Arrived
    <2>3. Pairs' = Pairs
      BY <1>1 DEF Pairs, Arrived
    <2>4. \A m : UNCHANGED motor => (AppliedUpTo(m) => AppliedUpTo(m)')
      BY <1>1, <2>3 DEF AppliedUpTo, MeaningAt, Hits, motor
    <2>5. UNCHANGED motor => (Applied => Applied')
      BY <1>1, <2>3 DEF Applied, Meaning, motor
    <2> QED
      BY <2>1, <2>2, <2>3, <2>4, <2>5
  <1> SUFFICES ASSUME Flat
               PROVE  /\ i' \in Nat
                      /\ pc' = "map" => i' = 0 /\ current' = 1 /\ AppliedUpTo(0)'
                      /\ pc' \in {"loop", "value"} => num_items' = payload'[1].val
                      /\ pc' = "loop" /\ return_code' = "OK" =>
                             current' = 2 * i' + 2 /\ AppliedUpTo(i)'
                      /\ pc' = "loop" /\ return_code' # "OK" => Applied'
                      /\ pc' = "value" => /\ current' = 2 * i' + 3
                                          /\ i' < num_items' /\ AppliedUpTo(i)'
                      /\ pc' = "done" => Applied'
    BY <1>2 DEF Progress
  <1>3. OnlyLastBroken /\ i \in Nat /\ current \in Nat
    BY DEF Progress, Inv
  <1>4. CASE ReadMap
    <2>1. /\ cw_unpack_next /\ i' = i /\ UNCHANGED motor /\ return_code = "OK"
          /\ i = 0 /\ current = 1 /\ AppliedUpTo(0) /\ current # Astray
      BY <1>4 DEF ReadMap, Inv, Progress, Astray
    <2>a. current' # Astray
      BY <2>1, FlatStays
    <2>2. CASE type' = "MAP"
      <3>1. /\ return_code' = "OK" /\ 1 \in 1..Len(payload) /\ current' = 2
            /\ payload[1] = Item("MAP", val')
        BY <2>1, <2>a, <2>2, Unpacked
      <3>2. payload[1].val = val'
        BY <3>1 DEF Item
      <3>3. pc' = "loop" /\ num_items' = payload'[1].val
        BY <1>1, <1>4, <2>2, <3>1, <3>2, FlatSize DEF ReadMap
      <3> QED
        BY <1>2, <2>1, <3>1, <3>3
    <2>3. CASE type' # "MAP"
      <3>1. return_code' = "OK" => payload[1] = Item(type', val')
        BY <2>1, <2>a, Unpacked
      <3>2. return_code' # "OK"
        BY <2>3, <3>1 DEF Flat, Item
      <3>3. ~(1 \in 1..Len(payload))
        <4>1. payload[1].fit = "whole"
          BY DEF Flat, Arrived
        <4> QED
          BY <2>1, <3>2, <4>1 DEF cw_unpack_next, Unpack, Inv
      <3>4. \A k \in Pairs : k <= 0
        BY <3>3 DEF Pairs, Inv
      <3>5. Applied
        BY <2>1, <3>4, NoMorePairs
      <3>6. pc' = "done" /\ Applied' /\ i' \in Nat
        BY <1>2, <1>3, <1>4, <2>1, <2>3, <3>5 DEF ReadMap
      <3> QED
        BY <3>6
    <2> QED
      BY <2>2, <2>3
  <1>5. CASE ReadKey
    <2>1. /\ cw_unpack_next /\ i' = i /\ UNCHANGED <<motor, num_items>>
          /\ pc = "loop" /\ i < num_items /\ num_items = payload[1].val
      BY <1>5 DEF ReadKey, Progress
    <2>2. CASE type' = "STR"
      <3>0. return_code' = "OK" /\ return_code = "OK"
        BY <2>1, <2>2, Unpacked
      <3>a. current # Astray
        BY <1>3, <2>1, <3>0 DEF Progress, Astray
      <3>1. return_code' = "OK" /\ return_code = "OK" /\ current' = current + 1
        BY <2>1, <3>0, <3>a, FlatStays, Unpacked
      <3>2. pc' = "value" /\ current' = 2 * i' + 3 /\ AppliedUpTo(i)
        BY <1>3, <1>5, <2>1, <2>2, <3>1 DEF ReadKey, Progress
      <3>3. AppliedUpTo(i)'
        BY <1>2, <2>1, <3>2 DEF AppliedUpTo
      <3>4. num_items' = payload'[1].val /\ i' < num_items' /\ i' \in Nat
        BY <1>1, <1>3, <2>1
      <3> QED
        BY <3>2, <3>3, <3>4
    <2>3. CASE type' # "STR"
      <3>1. pc' = "done"
        BY <1>5, <2>3 DEF ReadKey
      <3>2. CASE return_code # "OK"
        BY <1>2, <1>3, <2>1, <3>1, <3>2 DEF Progress
      <3>3. CASE return_code = "OK"
        <4>1. current = 2 * i + 2 /\ AppliedUpTo(i)
          BY <2>1, <3>3 DEF Progress
        <4>2. return_code' # "OK"
          <5> SUFFICES ASSUME return_code' = "OK" PROVE FALSE
            OBVIOUS
          <5>0. current # Astray
            BY <1>3, <4>1 DEF Astray
          <5>1. /\ current \in 1..Len(payload) /\ payload[current] = Item(type', val')
            BY <2>1, <5>0, FlatStays, Unpacked
          <5>2. current \in 2..Len(payload) /\ current % 2 = 0
            BY <1>3, <4>1, <5>1
          <5>3. payload[current].fit = "whole" /\ payload[current].type = type'
            BY <5>1 DEF Item
          <5> QED
            BY <2>3, <5>2, <5>3 DEF Flat, Arrived
        <4>3. \A k \in Pairs : k <= i
          BY <1>3, <2>1, <3>3, <4>1, <4>2, FailEnds
        <4>4. Applied
          BY <1>3, <4>1, <4>3, NoMorePairs
        <4> QED
          BY <1>2, <1>3, <2>1, <3>1, <4>4
      <3> QED
        BY <3>2, <3>3
    <2> QED
      BY <2>2, <2>3
  <1>6. CASE ReadValue
    <2>1. /\ cw_unpack_next /\ i' = i + 1 /\ num_items' = num_items /\ pc' = "loop"
          /\ pc = "value" /\ num_items = payload[1].val /\ return_code = "OK"
          /\ current = 2 * i + 3 /\ i < num_items /\ AppliedUpTo(i)
      BY <1>6 DEF ReadValue, Progress, Inv
    <2>a. current # Astray /\ current' # Astray
      <3>1. current # Astray
        BY <1>3, <2>1 DEF Astray
      <3> QED
        BY <2>1, <3>1, FlatStays
    <2>2. num_items' = payload'[1].val /\ i' \in Nat
      BY <1>1, <1>3, <2>1
    <2>3. CASE return_code' # "OK"
      <3>1. type' = "NOT_AN_ITEM"
        BY <2>1, <2>3, Unpacked
      <3>2. UNCHANGED motor
        BY <1>6, <3>1 DEF ReadValue, motor
      <3>3. \A k \in Pairs : k <= i
        BY <1>3, <2>1, <2>3, FailEnds
      <3>4. Applied
        BY <1>3, <2>1, <3>3, NoMorePairs
      <3> QED
        BY <1>2, <2>1, <2>2, <2>3, <3>2, <3>4
    <2>4. CASE return_code' = "OK"
      <3>1. /\ current \in 1..Len(payload) /\ current' = current + 1
            /\ payload[current] = Item(type', val')
            /\ length' = LengthAfter(payload[current])
        BY <2>1, <2>4, <2>a, Unpacked
      <3>2. /\ payload[current - 1] = Item("STR", key) /\ key \in Keys
            /\ length = Len(key)
        BY <2>1, <2>a DEF Inv
      <3>3. current = 2 * (i + 1) + 1 /\ current - 1 = 2 * (i + 1)
        BY <1>3, <2>1
      <3>4. /\ payload[2 * (i + 1)].val = key /\ Arrived(2 * (i + 1))
            /\ payload[2 * (i + 1) + 1].val = val' /\ payload[2 * (i + 1) + 1].type = type'
            /\ Arrived(2 * (i + 1) + 1)
        BY <3>1, <3>2, <3>3 DEF Item, Arrived
      <3>5. i + 1 \in Pairs
        <4>1. num_items \in Nat
          BY <1>3, <2>1, <3>1, FlatSize DEF Inv
        <4> QED
          BY <1>3, <2>1, <3>1, <3>3, <3>4, <4>1 DEF Pairs
      <3>6. ~Ambiguous(key)
        <4>1. 2 * (i + 1) \in 2..Len(payload) /\ (2 * (i + 1)) % 2 = 0
          BY <1>3, <3>1, <3>3
        <4> QED
          BY <3>4, <4>1 DEF Flat
      <3>7. type' \in {"BOOLEAN", "FLOAT"} => length' = Len(key)
        BY <3>1, <3>2 DEF LengthAfter, Item
      <3>8. /\ enabled' = IF key = Enable /\ type' = "BOOLEAN" THEN val' ELSE enabled
            /\ i_target' = IF key = ITarget /\ type' = "FLOAT" THEN val' ELSE i_target
        BY <1>6, <3>2, <3>6, <3>7, KeyIsName DEF ReadValue
      <3>9. /\ enabled' = MeaningAt(Enable, "BOOLEAN", FALSE, i + 1)
            /\ i_target' = MeaningAt(ITarget, "FLOAT", 0, i + 1)
        <4> DEFINE hit(name, t) == key = name /\ type' = t
        <4>1. \A name, t, before :
                  MeaningAt(name, t, before, i + 1) =
                      IF hit(name, t) THEN val' ELSE MeaningAt(name, t, before, i)
          BY <1>3, <3>4, <3>5, MeaningStep
        <4>2. /\ enabled = MeaningAt(Enable, "BOOLEAN", FALSE, i)
              /\ i_target = MeaningAt(ITarget, "FLOAT", 0, i)
          BY <2>1 DEF AppliedUpTo
        <4>3. /\ enabled' = IF hit(Enable, "BOOLEAN") THEN val' ELSE enabled
              /\ i_target' = IF hit(ITarget, "FLOAT") THEN val' ELSE i_target
          BY <3>8
        <4> HIDE DEF hit
        <4> QED
          BY <4>1, <4>2, <4>3
      <3>10. AppliedUpTo(i)'
        <4>1. \A name, t, before, m :
                  MeaningAt(name, t, before, m)' = MeaningAt(name, t, before, m)
          BY <1>1, <1>2 DEF MeaningAt, Hits
        <4>2. \A name, t, before :
                  MeaningAt(name, t, before, i)' = MeaningAt(name, t, before, i + 1)
          BY <2>1, <4>1
        <4> QED
          BY <3>9, <4>2 DEF AppliedUpTo
      <3>11. current' = 2 * i' + 2
        BY <1>3, <2>1, <3>1
      <3> QED
        BY <2>1, <2>2, <2>4, <3>10, <3>11
    <2> QED
      BY <2>3, <2>4
  <1>7. CASE EndOfLoop
    <2>1. /\ pc = "loop" /\ i >= num_items /\ pc' = "done" /\ i' = i /\ UNCHANGED motor
          /\ num_items = payload[1].val
      BY <1>7 DEF EndOfLoop, Progress
    <2>2. CASE return_code # "OK"
      BY <1>2, <1>3, <2>1, <2>2 DEF Progress
    <2>3. CASE return_code = "OK"
      <3>1. AppliedUpTo(i)
        BY <2>1, <2>3 DEF Progress
      <3>2. \A k \in Pairs : k <= i
        <4>1. ASSUME NEW k \in Pairs PROVE k <= i
          <5>1. 1 \in 1..Len(payload) /\ k \in Nat /\ k <= num_items
            BY <2>1 DEF Pairs, Inv
          <5>2. num_items \in Nat
            BY <2>1, <5>1, FlatSize
          <5> QED
            BY <1>3, <2>1, <5>1, <5>2
        <4> QED
          BY <4>1
      <3>3. Applied
        BY <1>3, <3>1, <3>2, NoMorePairs
      <3> QED
        BY <1>2, <1>3, <2>1, <3>3
    <2> QED
      BY <2>2, <2>3
  <1>8. CASE UNCHANGED vars
    <2>1. UNCHANGED <<payload, current, return_code, pc, num_items, i, motor>>
      BY <1>8 DEF vars, uc
    <2>2. AppliedUpTo(i) => AppliedUpTo(i)'
      BY <1>2, <2>1 DEF AppliedUpTo
    <2> QED
      BY <1>2, <2>1, <2>2 DEF Progress
  <1> QED
    BY <1>4, <1>5, <1>6, <1>7, <1>8 DEF Next

(* For payloads of every length, every set of keys and every width of int, *)
(* a flat command whose keys are names or start none sets exactly what it  *)
(* says.                                                                   *)
THEOREM CommandApplied == Spec => []CommandIsApplied
  <1>1. Progress => CommandIsApplied
    BY DEF Progress, Applied, CommandIsApplied
  <1>2. Inv /\ Inv' /\ Progress /\ [Next]_vars => Progress'
    BY ProgressKept
  <1> QED
    BY <1>1, <1>2, InvInit, InvNext, ProgressInit, PTL DEF Spec
=============================================================================
