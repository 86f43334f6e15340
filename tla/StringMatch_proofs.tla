--------------------------- MODULE StringMatch_proofs ---------------------------
(***************************************************************************)
(* Theorems about the string matcher, for any subjects and any patterns:   *)
(* it stays in its subject; gsub meets the matches that gmatch meets; and  *)
(* find returns the leftmost match, and of those the best.                 *)
(*                                                                         *)
(* The last rests on what the matcher has tried.  At each step there is a  *)
(* way of cutting the subject whose first parts are the ones it has        *)
(* matched, and every match that begins here agrees with it so far, or is  *)
(* left to an activation that waits; and every match left so is worse.     *)
(***************************************************************************)
EXTENDS StringMatch, SequenceLemmas

-----------------------------------------------------------------------------
(* The string matcher: where it is, where it may go back to.                *)

Lens == Nat \cup {Unfinished, Position}
CapturesFrom(lo, hi) == [init : lo .. hi, len : Lens]
Waits == [kind : {"max", "min", "start", "end"}, s : Nat, p : Int, n : Nat]

\* An activation that waits leaves left[k] captures when it gets its turn, none of which begins
\* behind its place.
Leaves(caps, waits, left) ==
  /\ left \in [1 .. Len(waits) -> 0 .. Len(caps)]
  /\ \A k \in 1 .. Len(waits) :
       /\ left[k] = (IF k = 1 THEN Len(caps) ELSE left[k - 1]) - (IF waits[k].kind = "start" THEN 1 ELSE 0)
       /\ \A l \in 1 .. left[k] : caps[l].init <= waits[k].s

\* The matcher of a subject with its end at `hi', called at `lo'.
Sound(lo, hi, w, at, caps, waits) ==
  /\ lo \in Nat /\ hi \in Nat /\ at \in lo .. hi
  /\ caps \in Seq(CapturesFrom(lo, hi)) /\ waits \in Seq(Waits)
  /\ \A k \in 1 .. Len(waits) :
       /\ waits[k].s \in lo .. hi
       /\ waits[k].kind \in {"max", "min"} => waits[k].s + waits[k].n <= hi
       /\ waits[k].kind = "min" => waits[k].n \in {0, 1}
  /\ \E left : Leaves(caps, waits, left)
  /\ w = "on" => \A l \in 1 .. Len(caps) : caps[l].init <= at

LEMMA Begins ==
  ASSUME NEW lo \in Nat, NEW hi \in Nat, NEW caps \in Seq(CapturesFrom(lo, hi)), NEW l \in 1 .. Len(caps)
  PROVE  caps[l] \in CapturesFrom(lo, hi) /\ caps[l].init \in lo .. hi /\ caps[l].init \in Int /\ caps[l].len \in Lens
<1>1. caps[l] \in CapturesFrom(lo, hi)
  OBVIOUS
<1>2. caps[l].init \in lo .. hi /\ caps[l].len \in Lens
  BY <1>1 DEF CapturesFrom
<1> QED BY <1>1, <1>2

LEMMA SoundOn ==
  ASSUME NEW lo, NEW hi, NEW at, NEW caps, NEW waits, Sound(lo, hi, "on", at, caps, waits),
         NEW to \in at .. hi
  PROVE  Sound(lo, hi, "on", to, caps, waits)
<1>1. \A l \in 1 .. Len(caps) : caps[l].init \in Int
  BY Begins DEF Sound
<1> QED BY <1>1 DEF Sound

LEMMA SoundEnded ==
  ASSUME NEW lo, NEW hi, NEW at, NEW caps, NEW waits, NEW w, Sound(lo, hi, w, at, caps, waits),
         NEW v, v # "on"
  PROVE  Sound(lo, hi, v, at, caps, waits)
BY DEF Sound

LEMMA SoundBack ==
  ASSUME NEW lo, NEW hi, NEW at, NEW caps, NEW waits, NEW w, Sound(lo, hi, w, at, caps, waits),
         NEW to \in lo .. hi
  PROVE  Sound(lo, hi, "back", to, caps, waits)
BY DEF Sound

\* Another activation waits.
LEMMA SoundPush ==
  ASSUME NEW lo, NEW hi, NEW at, NEW caps, NEW waits, Sound(lo, hi, "on", at, caps, waits),
         NEW c \in Waits, c.s \in at .. hi, c.kind # "start", c.kind \in {"max", "min"} => c.s + c.n <= hi,
         c.kind = "min" => c.n \in {0, 1}
  PROVE  Sound(lo, hi, "on", at, caps, <<c>> \o waits)
<1>1. PICK left : Leaves(caps, waits, left)
  BY DEF Sound
<1>2. PICK m \in Nat, q \in Nat : m = Len(waits) /\ q = Len(caps) /\ waits \in Seq(Waits)
  BY DEF Sound
<1>3. PICK ws \in Seq(Waits) : ws = <<c>> \o waits /\ Len(ws) = m + 1 /\ ws[1] = c /\ \A k \in 2 .. m + 1 : ws[k] = waits[k - 1]
  <2>1. <<c>> \o waits \in Seq(Waits) /\ Len(<<c>> \o waits) = m + 1
    BY <1>2
  <2>2. (<<c>> \o waits)[1] = c /\ \A k \in 2 .. m + 1 : (<<c>> \o waits)[k] = waits[k - 1]
    BY <1>2
  <2> QED BY <2>1, <2>2
<1>4. PICK more : more = [k \in 1 .. m + 1 |-> IF k = 1 THEN q ELSE left[k - 1]]
  OBVIOUS
<1>5. Leaves(caps, ws, more)
  <2>1. \A l \in 1 .. q : caps[l].init <= c.s /\ caps[l].init \in Int
    <3>1. \A l \in 1 .. q : caps[l].init <= at /\ caps[l].init \in Int
      BY <1>2, Begins DEF Sound
    <3>2. at \in Nat /\ hi \in Nat
      BY DEF Sound
    <3> QED BY <3>1, <3>2
  <2>2. more \in [1 .. m + 1 -> 0 .. q]
    BY <1>1, <1>2, <1>4 DEF Leaves
  <2>3. ASSUME NEW k \in 1 .. m + 1
        PROVE  /\ more[k] = (IF k = 1 THEN q ELSE more[k - 1]) - (IF ws[k].kind = "start" THEN 1 ELSE 0)
               /\ \A l \in 1 .. more[k] : caps[l].init <= ws[k].s
    <3>1. CASE k = 1
      BY <3>1, <2>1, <1>3, <1>4
    <3>2. CASE k # 1
      <4>1. PICK j \in 1 .. m : j = k - 1
        BY <3>2, <1>2
      <4>2. /\ left[j] = (IF j = 1 THEN q ELSE left[j - 1]) - (IF waits[j].kind = "start" THEN 1 ELSE 0)
            /\ \A l \in 1 .. left[j] : caps[l].init <= waits[j].s
        BY <1>1, <1>2, <4>1 DEF Leaves
      <4>3. more[k] = left[j] /\ ws[k] = waits[j] /\ more[k - 1] = IF j = 1 THEN q ELSE left[j - 1]
        BY <4>1, <3>2, <1>2, <1>3, <1>4
      <4> QED BY <4>2, <4>3, <3>2
    <3> QED BY <3>1, <3>2
  <2> QED BY <2>2, <2>3, <1>2, <1>3 DEF Leaves
<1>6. ASSUME NEW k \in 1 .. Len(ws)
      PROVE  /\ ws[k].s \in lo .. hi /\ (ws[k].kind \in {"max", "min"} => ws[k].s + ws[k].n <= hi)
             /\ ws[k].kind = "min" => ws[k].n \in {0, 1}
  <2>1. CASE k = 1
    BY <2>1, <1>3 DEF Sound
  <2>2. CASE k # 1
    <3>1. k \in 2 .. m + 1 /\ k - 1 \in 1 .. m
      BY ONLY <2>2, <1>3, m \in Nat, k \in 1 .. Len(ws)
    <3>2. ws[k] = waits[k - 1]
      BY <3>1, <1>3
    <3>3. PICK j \in 1 .. m : j = k - 1 /\ ws[k] = waits[j]
      BY ONLY <3>1, <3>2
    <3> QED BY <3>3, <1>2 DEF Sound
  <2> QED BY <2>1, <2>2
<1> QED BY <1>3, <1>5, <1>6 DEF Sound

\* A capture begins; it is given up when its activation gets its turn.
LEMMA SoundStart ==
  ASSUME NEW lo, NEW hi, NEW at, NEW caps, NEW waits, Sound(lo, hi, "on", at, caps, waits),
         NEW c \in Waits, c.s = at, c.kind = "start", NEW what \in Lens
  PROVE  Sound(lo, hi, "on", at, Append(caps, [init |-> at, len |-> what]), <<c>> \o waits)
<1>1. PICK left : Leaves(caps, waits, left)
  BY DEF Sound
<1>2. PICK m \in Nat, q \in Nat : m = Len(waits) /\ q = Len(caps) /\ waits \in Seq(Waits)
  BY DEF Sound
<1>3. PICK ws \in Seq(Waits) : ws = <<c>> \o waits /\ Len(ws) = m + 1 /\ ws[1] = c /\ \A k \in 2 .. m + 1 : ws[k] = waits[k - 1]
  <2>1. <<c>> \o waits \in Seq(Waits) /\ Len(<<c>> \o waits) = m + 1
    BY <1>2
  <2>2. (<<c>> \o waits)[1] = c /\ \A k \in 2 .. m + 1 : (<<c>> \o waits)[k] = waits[k - 1]
    BY <1>2
  <2> QED BY <2>1, <2>2
<1>4. PICK cs \in Seq(CapturesFrom(lo, hi)) :
        /\ cs = Append(caps, [init |-> at, len |-> what]) /\ Len(cs) = q + 1
        /\ (\A l \in 1 .. q : cs[l] = caps[l]) /\ cs[q + 1].init = at
  <2>1. [init |-> at, len |-> what] \in CapturesFrom(lo, hi) /\ caps \in Seq(CapturesFrom(lo, hi))
    BY DEF Sound, CapturesFrom
  <2>2. PICK new \in CapturesFrom(lo, hi) : new = [init |-> at, len |-> what] /\ new.init = at
    BY <2>1
  <2>3. Append(caps, new) \in Seq(CapturesFrom(lo, hi)) /\ Len(Append(caps, new)) = q + 1
    BY <2>1, <1>2
  <2>4. (\A l \in 1 .. q : Append(caps, new)[l] = caps[l]) /\ Append(caps, new)[q + 1] = new
    BY <2>1, <1>2
  <2> QED BY <2>2, <2>3, <2>4
<1>5. PICK more : more = [k \in 1 .. m + 1 |-> IF k = 1 THEN q ELSE left[k - 1]]
  OBVIOUS
<1>6. \A l \in 1 .. q : caps[l].init <= at /\ caps[l].init \in Int
  BY <1>2, Begins DEF Sound
<1>7. Leaves(cs, ws, more)
  <2>1. left \in [1 .. m -> 0 .. q]
    BY <1>1, <1>2 DEF Leaves
  <2>2. more \in [1 .. m + 1 -> 0 .. q + 1]
    BY <2>1, <1>2, <1>5
  <2>3. ASSUME NEW k \in 1 .. m + 1
        PROVE  /\ more[k] = (IF k = 1 THEN q + 1 ELSE more[k - 1]) - (IF ws[k].kind = "start" THEN 1 ELSE 0)
               /\ \A l \in 1 .. more[k] : cs[l].init <= ws[k].s
    <3>1. CASE k = 1
      BY <3>1, <1>6, <1>3, <1>4, <1>5, <1>2
    <3>2. CASE k # 1
      <4>1. PICK j \in 1 .. m : j = k - 1
        BY <3>2, <1>2
      <4>2. /\ left[j] = (IF j = 1 THEN q ELSE left[j - 1]) - (IF waits[j].kind = "start" THEN 1 ELSE 0)
            /\ \A l \in 1 .. left[j] : caps[l].init <= waits[j].s
        BY <1>1, <1>2, <4>1 DEF Leaves
      <4>3. more[k] = left[j] /\ ws[k] = waits[j] /\ more[k - 1] = IF j = 1 THEN q ELSE left[j - 1]
        BY <4>1, <3>2, <1>2, <1>3, <1>5
      <4>4. \A l \in 1 .. left[j] : cs[l] = caps[l]
        BY <4>1, <2>1, <1>4
      <4> QED BY <4>2, <4>3, <4>4, <3>2
    <3> QED BY <3>1, <3>2
  <2> QED BY SMTT(60), <2>2, <2>3, <1>3, <1>4 DEF Leaves
<1>8. ASSUME NEW k \in 1 .. Len(ws)
      PROVE  /\ ws[k].s \in lo .. hi /\ (ws[k].kind \in {"max", "min"} => ws[k].s + ws[k].n <= hi)
             /\ ws[k].kind = "min" => ws[k].n \in {0, 1}
  <2>1. CASE k = 1
    BY <2>1, <1>3 DEF Sound
  <2>2. CASE k # 1
    <3>1. k \in 2 .. m + 1 /\ k - 1 \in 1 .. m
      BY ONLY <2>2, <1>3, m \in Nat, k \in 1 .. Len(ws)
    <3>2. ws[k] = waits[k - 1]
      BY <3>1, <1>3
    <3>3. PICK j \in 1 .. m : j = k - 1 /\ ws[k] = waits[j]
      BY ONLY <3>1, <3>2
    <3> QED BY <3>3, <1>2 DEF Sound
  <2> QED BY <2>1, <2>2
<1>9. \A l \in 1 .. Len(cs) : cs[l].init <= at
  <2>1. at \in Nat
    BY DEF Sound
  <2> QED BY <2>1, <1>4, <1>6
<1> QED BY <1>3, <1>4, <1>7, <1>8, <1>9 DEF Sound

\* A capture ends, or its end is undone.
LEMMA SoundCaptures ==
  ASSUME NEW lo, NEW hi, NEW at, NEW caps, NEW waits, NEW w, Sound(lo, hi, w, at, caps, waits),
         NEW l, NEW len \in Lens
  PROVE  Sound(lo, hi, w, at, [caps EXCEPT ![l].len = len], waits)
<1>1. PICK q \in Nat : q = Len(caps) /\ caps \in Seq(CapturesFrom(lo, hi))
  BY DEF Sound
<1>2. PICK cs \in Seq(CapturesFrom(lo, hi)) :
        cs = [caps EXCEPT ![l].len = len] /\ Len(cs) = q /\ \A k \in 1 .. q : cs[k].init = caps[k].init
  <2>1. PICK cs : cs = [caps EXCEPT ![l].len = len]
    OBVIOUS
  <2>2. ASSUME NEW k \in 1 .. q PROVE cs[k] \in CapturesFrom(lo, hi) /\ cs[k].init = caps[k].init
    <3>1. caps[k] \in CapturesFrom(lo, hi)
      BY <1>1
    <3>2. cs[k] = IF k = l THEN [caps[k] EXCEPT !.len = len] ELSE caps[k]
      BY <2>1, <1>1
    <3> QED BY <3>1, <3>2 DEF CapturesFrom
  <2>3. DOMAIN cs = 1 .. q /\ cs = [k \in 1 .. q |-> cs[k]]
    <3>1. caps \in [1 .. q -> CapturesFrom(lo, hi)]
      BY <1>1
    <3>2. DOMAIN cs = DOMAIN caps /\ cs = [k \in DOMAIN caps |-> cs[k]]
      BY <2>1
    <3> QED BY <3>1, <3>2
  <2>4. cs \in [1 .. q -> CapturesFrom(lo, hi)]
    BY <2>2, <2>3
  <2>5. cs \in Seq(CapturesFrom(lo, hi)) /\ Len(cs) = q
    BY <2>4
  <2> QED BY <2>1, <2>2, <2>5
<1>3. PICK left : Leaves(caps, waits, left)
  BY DEF Sound
<1>4. Leaves(cs, waits, left)
  BY <1>1, <1>2, <1>3 DEF Leaves
<1> QED BY <1>1, <1>2, <1>4 DEF Sound

\* The innermost activation that waits gets its turn.
LEMMA SoundPop ==
  ASSUME NEW lo, NEW hi, NEW at, NEW caps, NEW waits, NEW w, Sound(lo, hi, w, at, caps, waits), waits # <<>>
  PROVE  /\ Head(waits) \in Waits /\ Head(waits).s \in lo .. hi
         /\ Head(waits).kind \in {"max", "min"} => Head(waits).s + Head(waits).n <= hi
         /\ Head(waits).kind = "min" => Head(waits).n \in {0, 1}
         /\ Head(waits).kind # "start" => Sound(lo, hi, "on", Head(waits).s, caps, Tail(waits))
         /\ Head(waits).kind = "start" => Sound(lo, hi, "on", Head(waits).s, SubSeq(caps, 1, Len(caps) - 1), Tail(waits))
<1>1. PICK left : Leaves(caps, waits, left)
  BY DEF Sound
<1>2. PICK m \in Nat, q \in Nat : m = Len(waits) /\ q = Len(caps) /\ waits \in Seq(Waits) /\ caps \in Seq(CapturesFrom(lo, hi)) /\ m # 0
  BY EmptySeq DEF Sound
<1>3. PICK ws \in Seq(Waits), c \in Waits :
        ws = Tail(waits) /\ c = Head(waits) /\ c = waits[1] /\ Len(ws) = m - 1 /\ \A k \in 1 .. m - 1 : ws[k] = waits[k + 1]
  <2>1. Tail(waits) \in Seq(Waits) /\ Head(waits) \in Waits /\ Head(waits) = waits[1] /\ Len(Tail(waits)) = m - 1
    BY <1>2
  <2>2. \A k \in 1 .. m - 1 : Tail(waits)[k] = waits[k + 1]
    BY <1>2
  <2> QED BY <2>1, <2>2
<1>4. c.s \in lo .. hi /\ (c.kind \in {"max", "min"} => c.s + c.n <= hi) /\ (c.kind = "min" => c.n \in {0, 1})
  BY <1>2, <1>3 DEF Sound
<1>5. PICK less \in Nat : less = left[1] /\ less = q - (IF c.kind = "start" THEN 1 ELSE 0) /\ \A l \in 1 .. less : caps[l].init <= c.s
  <2>1. 1 \in 1 .. m /\ left \in [1 .. m -> 0 .. q]
    BY <1>1, <1>2 DEF Leaves
  <2>2. /\ left[1] = Len(caps) - (IF waits[1].kind = "start" THEN 1 ELSE 0)
        /\ \A l \in 1 .. left[1] : caps[l].init <= waits[1].s
    BY <2>1, <1>1, <1>2 DEF Leaves
  <2>3. left[1] \in Nat
    BY <2>1
  <2> QED BY <2>2, <2>3, <1>2, <1>3
<1>6. ASSUME NEW cs \in Seq(CapturesFrom(lo, hi)), Len(cs) = less, \A l \in 1 .. less : cs[l] = caps[l]
      PROVE  Sound(lo, hi, "on", c.s, cs, ws)
  <2>1. PICK more : more = [k \in 1 .. m - 1 |-> left[k + 1]]
    OBVIOUS
  <2>2. ASSUME NEW k \in 1 .. m - 1
        PROVE  /\ left[k + 1] \in 0 .. less /\ ws[k] = waits[k + 1]
               /\ left[k + 1] = (IF k = 1 THEN less ELSE left[k]) - (IF waits[k + 1].kind = "start" THEN 1 ELSE 0)
               /\ \A l \in 1 .. left[k + 1] : caps[l].init <= waits[k + 1].s
    <3>1. /\ left[k + 1] = left[k] - (IF waits[k + 1].kind = "start" THEN 1 ELSE 0)
          /\ \A l \in 1 .. left[k + 1] : caps[l].init <= waits[k + 1].s
      <4>1. PICK j \in 1 .. m : j = k + 1 /\ j # 1 /\ j - 1 = k
        BY <1>2
      <4> QED BY <4>1, <1>1, <1>2 DEF Leaves
    <3>2. left[k + 1] \in 0 .. less
      <4> DEFINE T == {j \in Nat : j <= m - 1 => left[j + 1] \in 0 .. less}
      <4>1. 0 \in T
        <5>1. 0 + 1 = 1 /\ left[1] \in 0 .. less
          BY <1>5
        <5> QED BY <5>1
      <4>2. ASSUME NEW j \in 0 .. (m - 1) - 1, j \in T PROVE j + 1 \in T
        <5>1. PICK i \in 1 .. m : i = (j + 1) + 1 /\ i # 1 /\ i - 1 = j + 1
          BY <1>2
        <5>2. left[i] = left[i - 1] - (IF waits[i].kind = "start" THEN 1 ELSE 0) /\ left[i] \in 0 .. q
          BY <5>1, <1>1, <1>2 DEF Leaves
        <5>3. left[j + 1] \in 0 .. less
          BY <4>2, <1>2
        <5>4. left[i] \in 0 .. less
          BY <5>1, <5>2, <5>3
        <5> QED BY <5>1, <5>4
      <4>3. k \in T
        <5>1. m - 1 \in Nat /\ k \in 0 .. m - 1
          BY <1>2
        <5> HIDE DEF T
        <5> QED BY <5>1, <4>1, <4>2, Induct
      <4> QED BY <4>3, <1>2
    <3> QED BY <3>1, <3>2, <1>3, <1>5
  <2>3. Leaves(cs, ws, more)
    <3>1. more \in [1 .. m - 1 -> 0 .. less]
      BY <2>1, <2>2
    <3>2. ASSUME NEW k \in 1 .. m - 1
          PROVE  /\ more[k] = (IF k = 1 THEN less ELSE more[k - 1]) - (IF ws[k].kind = "start" THEN 1 ELSE 0)
                 /\ \A l \in 1 .. more[k] : cs[l].init <= ws[k].s
      <4>1. more[k] = left[k + 1] /\ (k # 1 => more[k - 1] = left[k])
        BY <2>1, <1>2
      <4>2. \A l \in 1 .. left[k + 1] : l \in 1 .. less
        <5>1. PICK x \in 0 .. less : x = left[k + 1]
          BY <2>2
        <5> QED BY <5>1
      <4> QED BY <4>1, <4>2, <2>2, <1>6
    <3> QED BY <3>1, <3>2, <1>3, <1>6 DEF Leaves
  <2>4. ASSUME NEW k \in 1 .. Len(ws)
        PROVE  /\ ws[k].s \in lo .. hi /\ (ws[k].kind \in {"max", "min"} => ws[k].s + ws[k].n <= hi)
               /\ ws[k].kind = "min" => ws[k].n \in {0, 1}
    <3>1. PICK j \in 1 .. m : j = k + 1 /\ ws[k] = waits[j]
      BY <1>2, <1>3
    <3> QED BY <3>1, <1>2 DEF Sound
  <2>5. \A l \in 1 .. Len(cs) : cs[l].init <= c.s
    BY <1>5, <1>6
  <2>6. lo \in Nat /\ hi \in Nat
    BY DEF Sound
  <2>7. ws \in Seq(Waits) /\ cs \in Seq(CapturesFrom(lo, hi)) /\ c.s \in lo .. hi
    BY <1>4
  <2>8. \E way1 : Leaves(cs, ws, way1)
    BY <2>3
  <2>9. PICK to : to = c.s
    OBVIOUS
  <2>10. to \in lo .. hi /\ \A l \in 1 .. Len(cs) : cs[l].init <= to
    BY ONLY <2>5, <2>7, <2>9
  <2>11. Sound(lo, hi, "on", to, cs, ws)
    BY ONLY <2>4, <2>6, <2>7, <2>8, <2>10 DEF Sound
  <2> QED BY <2>9, <2>11
<1>7. CASE c.kind # "start"
  BY <1>2, <1>3, <1>4, <1>5, <1>6, <1>7
<1>8. CASE c.kind = "start"
  <2>1. PICK cs : cs = SubSeq(caps, 1, q - 1)
    OBVIOUS
  <2>2. cs \in Seq(CapturesFrom(lo, hi)) /\ Len(cs) = less /\ \A l \in 1 .. less : cs[l] = caps[l]
    BY <2>1, <1>2, <1>5, <1>8
  <2> QED BY <2>1, <2>2, <1>2, <1>3, <1>4, <1>6, <1>8
<1> QED BY <1>7, <1>8

\* The matcher called at src.
Matching == /\ subject \in Seq(STRING) /\ src \in Nat \ {0} /\ p \in Int
            /\ Sound(src, End, way, s, cap, choices)
\* Of what a step of it changes.
StillMatching == p' \in Int /\ Sound(src, End, way', s', cap', choices')

LEMMA Places ==
  ASSUME Matching
  PROVE  /\ src \in Nat \ {0} /\ End \in Nat /\ s \in Nat /\ src <= s /\ s <= End /\ p \in Int
         /\ choices \in Seq(Waits) /\ cap \in Seq(CapturesFrom(src, End))
BY DEF Matching, Sound

LEMMA Goes ==
  ASSUME Matching, way = "on", cap' = cap, NEW to \in s .. End, NEW q \in Int, GoOn(to, q, <<>>)
  PROVE  StillMatching
<1>1. <<>> \o choices = choices
  BY Places
<1>2. Sound(src, End, "on", to, cap, choices)
  BY SoundOn DEF Matching
<1> QED BY <1>1, <1>2 DEF GoOn, StillMatching

LEMMA GoesLeaving ==
  ASSUME Matching, way = "on", cap' = cap, NEW to \in s .. End, NEW q \in Int,
         NEW c \in Waits, c.s \in s .. End, c.kind # "start", c.kind \in {"max", "min"} => c.s + c.n <= End,
         c.kind = "min" => c.n \in {0, 1}, GoOn(to, q, <<c>>)
  PROVE  StillMatching
<1>1. Sound(src, End, "on", s, cap, <<c>> \o choices)
  BY SoundPush DEF Matching
<1>2. Sound(src, End, "on", to, cap, <<c>> \o choices)
  BY <1>1, SoundOn
<1> QED BY <1>2 DEF GoOn, StillMatching

LEMMA Fails ==
  ASSUME Matching, cap' = cap, GoBack \/ Abort
  PROVE  StillMatching
<1>1. way' # "on" /\ UNCHANGED <<s, p, choices>> /\ p \in Int
  BY DEF GoBack, Abort, Matching
<1>2. Sound(src, End, way', s, cap, choices)
  BY <1>1, SoundEnded DEF Matching
<1> QED BY <1>1, <1>2 DEF StillMatching

\* max_expand stays within the subject.
LEMMA LongestIn ==
  ASSUME subject \in Seq(STRING), NEW i \in 1 .. End, NEW set
  PROVE  Longest(i, set) \in 0 .. End - i
<1>1. PICK e \in Nat : e = End /\ i \in 1 .. e
  BY DEF End
<1> DEFINE T == {n \in 0 .. e - i : ~In(i + n, set)}
<1>2. e - i \in T
  BY <1>1 DEF In
<1>3. PICK n \in T : \A j \in T : n <= j
  <2>1. T \subseteq 0 .. e - i /\ 0 .. e - i \subseteq Nat
    OBVIOUS
  <2>2. T \subseteq Nat /\ T # {}
    BY <1>2, <2>1
  <2> HIDE DEF T
  <2> QED BY <2>2, Least
<1>4. /\ n \in 0 .. End - i /\ ~In(i + n, set)
      /\ \A j \in 0 .. n - 1 : In(i + j, set)
  <2>1. n \in 0 .. e - i /\ ~In(i + n, set)
    OBVIOUS
  <2>2. ASSUME NEW j \in 0 .. n - 1, ~In(i + j, set) PROVE FALSE
    <3>1. j \in T
      BY <2>1, <2>2
    <3>2. n <= j
      BY ONLY <3>1, <1>3
    <3> QED BY <2>1, <3>2
  <2> QED BY <1>1, <2>1, <2>2
<1> HIDE DEF T
<1> QED BY <1>4 DEF Longest

LEMMA SingleSound ==
  ASSUME Matching, way = "on", NEW set, Single(set)
  PROVE  StillMatching
<1>1. PICK e \in Nat, lo \in Nat \ {0} : e = End /\ lo = src
  BY Places
<1>2. s \in Nat /\ lo <= s /\ s <= e /\ p \in Int /\ p + 1 \in Int /\ cap' = cap /\ s \in s .. End
  BY <1>1, Places DEF Single
<1>3. In(s, set) => s + 1 \in s .. End /\ s < e
  BY <1>1, <1>2 DEF In
<1>4. ASSUME NEW n \in {0, 1}, s + n <= e
      PROVE  Choice("min", n) \in Waits /\ Choice("min", n).s = s /\ Choice("min", n).kind = "min" /\ Choice("min", n).n = n
  BY <1>2 DEF Choice, Waits
<1>5. ASSUME NEW i \in s .. End, NEW n, n = Longest(i, set),
             GoOn(i + n, p + 1, IF n = 0 THEN <<>> ELSE <<[Choice("max", n - 1) EXCEPT !.s = i]>>)
      PROVE  StillMatching
  <2>1. i \in 1 .. End /\ i \in Nat
    BY <1>1, <1>2
  <2>2. n \in 0 .. End - i
    BY <1>5, <2>1, LongestIn DEF Matching
  <2>3. i + n \in s .. End
    BY <1>1, <1>2, <2>1, <2>2
  <2>4. CASE n = 0
    BY <2>3, <2>4, <1>2, <1>5, Goes
  <2>5. CASE n # 0
    <3>1. PICK c : c = [kind |-> "max", s |-> i, p |-> p, n |-> n - 1]
      OBVIOUS
    <3>2. [Choice("max", n - 1) EXCEPT !.s = i] = c
      BY <3>1 DEF Choice
    <3>3. n - 1 \in Nat /\ i + (n - 1) <= e
      BY <2>1, <2>2, <2>5, <1>1
    <3>4. c \in Waits /\ c.s = i /\ c.kind = "max" /\ c.n = n - 1
      BY <3>1, <3>3, <2>1, <1>2 DEF Waits
    <3>5. GoOn(i + n, p + 1, <<c>>)
      BY <3>2, <2>5, <1>5
    <3> QED BY <3>3, <3>4, <3>5, <2>3, <1>1, <1>2, GoesLeaving
  <2> QED BY <2>4, <2>5
<1>6. CASE pattern[p].rep = "1" /\ (IF In(s, set) THEN GoOn(s + 1, p + 1, <<>>) ELSE GoBack)
  BY <1>6, <1>2, <1>3, Goes, Fails
<1>7. CASE pattern[p].rep = "?" /\ (IF In(s, set) THEN GoOn(s + 1, p + 1, <<Choice("min", 0)>>) ELSE GoOn(s, p + 1, <<>>))
  <2>1. CASE In(s, set)
    <3>1. PICK c \in Waits : c = Choice("min", 0) /\ c.s = s /\ c.kind = "min" /\ c.n = 0
      BY <1>4, <1>2
    <3>2. c.s \in s .. End /\ c.s + c.n <= End
      BY <3>1, <1>1, <1>2
    <3>3. GoOn(s + 1, p + 1, <<c>>)
      BY <1>7, <2>1, <3>1
    <3> QED BY <3>1, <3>2, <3>3, <2>1, <1>2, <1>3, GoesLeaving
  <2>2. CASE ~In(s, set)
    BY <1>7, <2>2, <1>2, Goes
  <2> QED BY <2>1, <2>2
<1>8. CASE pattern[p].rep = "-" /\ GoOn(s, p + 1, IF In(s, set) THEN <<Choice("min", 1)>> ELSE <<>>)
  <2>1. CASE In(s, set)
    <3>1. PICK c \in Waits : c = Choice("min", 1) /\ c.s = s /\ c.kind = "min" /\ c.n = 1
      BY <1>4, <1>2, <1>3, <2>1
    <3>2. c.s \in s .. End /\ c.s + c.n <= End
      BY <3>1, <1>1, <1>2, <1>3, <2>1
    <3>3. GoOn(s, p + 1, <<c>>)
      BY <1>8, <2>1, <3>1
    <3> QED BY <3>1, <3>2, <3>3, <1>2, GoesLeaving
  <2>2. CASE ~In(s, set)
    BY <1>8, <2>2, <1>2, Goes
  <2> QED BY <2>1, <2>2
<1>9. ASSUME NEW i \in s .. End,
             LET n == Longest(i, set) IN
             GoOn(i + n, p + 1, IF n = 0 THEN <<>> ELSE <<[Choice("max", n - 1) EXCEPT !.s = i]>>)
      PROVE  StillMatching
  BY <1>5, <1>9
<1>10. CASE pattern[p].rep = "*" /\ LET n == Longest(s, set) IN
              GoOn(s + n, p + 1, IF n = 0 THEN <<>> ELSE <<[Choice("max", n - 1) EXCEPT !.s = s]>>)
  BY <1>10, <1>9, <1>2
<1>11. CASE pattern[p].rep = "+" /\ (IF In(s, set)
              THEN LET n == Longest(s + 1, set) IN
                   GoOn((s + 1) + n, p + 1, IF n = 0 THEN <<>> ELSE <<[Choice("max", n - 1) EXCEPT !.s = s + 1]>>)
              ELSE GoBack)
  BY <1>11, <1>9, <1>2, <1>3, Fails
<1> QED BY <1>6, <1>7, <1>8, <1>10, <1>11 DEF Single

LEMMA StartSound ==
  ASSUME Matching, way = "on", NEW what \in Lens, StartCapture(what)
  PROVE  StillMatching
<1>1. CASE Len(cap) >= MaxCaptures
  BY <1>1, Fails DEF StartCapture
<1>2. CASE ~(Len(cap) >= MaxCaptures)
  <2>1. cap' = Append(cap, [init |-> s, len |-> what]) /\ GoOn(s, p + 1, <<Choice("start", 0)>>)
    BY <1>2 DEF StartCapture
  <2>2. s \in Nat /\ p \in Int
    BY Places
  <2>3. PICK c \in Waits : c = Choice("start", 0) /\ c.s = s /\ c.kind = "start"
    <3>1. Choice("start", 0) \in Waits /\ Choice("start", 0).s = s /\ Choice("start", 0).kind = "start"
      BY <2>2 DEF Choice, Waits
    <3> QED BY <3>1
  <2>4. Sound(src, End, "on", s, Append(cap, [init |-> s, len |-> what]), <<c>> \o choices)
    BY <2>3, SoundStart DEF Matching
  <2> QED BY <2>1, <2>2, <2>3, <2>4 DEF GoOn, StillMatching
<1> QED BY <1>1, <1>2

LEMMA EndSound ==
  ASSUME Matching, way = "on", EndCapture
  PROVE  StillMatching
<1>1. CASE Open = {}
  BY <1>1, Fails DEF EndCapture
<1>2. CASE Open # {}
  <2>1. PICK l : /\ l = CHOOSE k \in Open : \A m \in Open : m <= k
                 /\ cap' = [cap EXCEPT ![l].len = s - cap[l].init]
                 /\ GoOn(s, p + 1, <<Choice("end", l)>>)
    BY <1>2 DEF EndCapture
  <2>2. s \in Nat /\ p \in Int /\ cap \in Seq(CapturesFrom(src, End)) /\ src \in Nat /\ End \in Nat /\ s <= End
    BY Places
  <2>3. Open \subseteq 1 .. Len(cap) /\ Open \subseteq Nat /\ Len(cap) \in Nat
    BY <2>2 DEF Open
  <2>4. l \in Open
    <3>1. \A m \in Open : m <= Len(cap)
      BY <2>3
    <3>2. \E l1 \in Open : \A m \in Open : l1 >= m
      BY <1>2, <2>3, <3>1, Greatest
    <3>3. \E l1 \in Open : \A m \in Open : m <= l1
      BY <2>3, <3>2
    <3> QED BY <2>1, <3>3
  <2>5. cap[l].init \in Int /\ cap[l].init <= s
    <3>1. l \in 1 .. Len(cap)
      BY <2>3, <2>4
    <3>2. cap[l].init \in Int
      BY <2>2, <3>1, Begins
    <3>3. cap[l].init <= s
      BY <3>1 DEF Matching, Sound
    <3> QED BY <3>2, <3>3
  <2>6. s - cap[l].init \in Lens
    BY <2>2, <2>5 DEF Lens
  <2>7. PICK c \in Waits : c = Choice("end", l) /\ c.s = s /\ c.kind = "end"
    <3>1. l \in Nat
      BY <2>3, <2>4
    <3>2. Choice("end", l) \in Waits /\ Choice("end", l).s = s /\ Choice("end", l).kind = "end"
      BY <2>2, <3>1 DEF Choice, Waits
    <3> QED BY <3>2
  <2>8. Sound(src, End, "on", s, cap, <<c>> \o choices)
    BY <2>2, <2>7, SoundPush DEF Matching
  <2>9. Sound(src, End, "on", s, [cap EXCEPT ![l].len = s - cap[l].init], <<c>> \o choices)
    BY <2>6, <2>8, SoundCaptures
  <2> QED BY <2>1, <2>2, <2>7, <2>9 DEF GoOn, StillMatching
<1> QED BY <1>1, <1>2

LEMMA CaptureSound ==
  ASSUME Matching, way = "on", NEW l, MatchCapture(l)
  PROVE  StillMatching
<1>1. cap' = cap
  BY DEF MatchCapture
<1>2. CASE GoBack \/ Abort
  BY <1>1, <1>2, Fails
<1>3. CASE l \in DOMAIN cap \ Open /\ cap[l].len # Position /\ cap[l].len <= End - s /\ GoOn(s + cap[l].len, p + 1, <<>>)
  <2>1. s \in Nat /\ p + 1 \in Int /\ End \in Nat /\ src \in Nat /\ cap \in Seq(CapturesFrom(src, End))
    BY Places
  <2>2. l \in 1 .. Len(cap) /\ cap[l].len # Unfinished
    BY <2>1, <1>3 DEF Open
  <2>3. cap[l].len \in Lens
    BY <2>1, <2>2, Begins
  <2>4. cap[l].len \in Nat
    BY <2>2, <2>3, <1>3 DEF Lens
  <2>5. s + cap[l].len \in s .. End
    BY <2>1, <2>4, <1>3
  <2> QED BY <2>1, <2>5, <1>1, <1>3, Goes
<1> QED BY <1>2, <1>3 DEF MatchCapture

LEMMA BalanceSound ==
  ASSUME Matching, way = "on", NEW bb, NEW ee, Balance(bb, ee)
  PROVE  StillMatching
<1>1. cap' = cap
  BY DEF Balance
<1>2. CASE GoBack
  BY <1>1, <1>2, Fails
<1>3. ASSUME NEW ends, ends = {i \in s + 1 .. Len(subject) : subject[i] = ee /\ Excess(s, i, bb, ee) = 0}, ends # {},
             GoOn(1 + CHOOSE i \in ends : \A j \in ends : i <= j, p + 1, <<>>)
      PROVE  StillMatching
  <2>1. s \in Nat /\ p + 1 \in Int /\ End \in Nat /\ Len(subject) \in Nat /\ End = Len(subject) + 1
    BY Places DEF End, Matching
  <2>2. ends \subseteq s + 1 .. Len(subject) /\ ends \subseteq Nat
    BY <2>1, <1>3
  <2>3. PICK k : k = CHOOSE i \in ends : \A j \in ends : i <= j
    OBVIOUS
  <2>4. k \in ends
    BY <2>2, <2>3, <1>3, Least
  <2>5. 1 + k \in s .. End
    BY <2>1, <2>2, <2>4
  <2>6. GoOn(1 + k, p + 1, <<>>)
    BY <1>3, <2>3
  <2> QED BY <2>1, <2>5, <2>6, <1>1, Goes
<1> QED BY <1>2, <1>3 DEF Balance

LEMMA PartSound ==
  ASSUME Matching, Part
  PROVE  StillMatching
<1>1. way = "on" /\ p + 1 \in Int /\ s \in s .. End
  BY Places DEF Part
<1>2. PICK part : part = pattern[p]
  OBVIOUS
<1>3. \/ part.op = "set" /\ Single(part.set)
      \/ part.op = "(" /\ StartCapture(Unfinished)
      \/ part.op = "()" /\ StartCapture(Position)
      \/ part.op = ")" /\ EndCapture
      \/ part.op = "%1" /\ MatchCapture(1)
      \/ part.op = "%b" /\ Balance("a", "b")
      \/ part.op = "%f" /\ Frontier(part.set)
      \/ part.op = "$" /\ AtEnd
      \/ part.op = "^" /\ GoBack /\ UNCHANGED cap
  BY <1>2 DEF Part
<1>4. Unfinished \in Lens /\ Position \in Lens
  BY DEF Lens
<1>5. CASE Frontier(part.set) \/ AtEnd
  <2>1. cap' = cap /\ (GoBack \/ GoOn(s, p + 1, <<>>))
    BY <1>5 DEF Frontier, AtEnd
  <2> QED BY <2>1, <1>1, Goes, Fails
<1>6. CASE GoBack /\ UNCHANGED cap
  BY <1>6, Fails
<1> QED BY <1>1, <1>3, <1>4, <1>5, <1>6, SingleSound, StartSound, EndSound, CaptureSound, BalanceSound

LEMMA BackSound ==
  ASSUME Matching, Back
  PROVE  StillMatching
<1>1. way = "back" /\ p \in Int /\ choices \in Seq(Waits) /\ src \in Nat /\ End \in Nat /\ s \in Nat
      /\ cap \in Seq(CapturesFrom(src, End)) /\ subject \in Seq(STRING)
  BY Places DEF Back, Matching
<1>2. CASE choices = <<>>
  <2>1. way' = "none" /\ UNCHANGED <<s, p, cap, choices>>
    BY <1>2 DEF Back
  <2> QED BY <2>1, <1>1, SoundEnded DEF StillMatching, Matching
<1>3. CASE choices # <<>>
  <2>12. Sound(src, End, way, s, cap, choices)
    BY DEF Matching
  <2>13. PICK e \in Nat : e = End
    BY <1>1
  <2>14. /\ Head(choices) \in Waits /\ Head(choices).s \in src .. End
         /\ Head(choices).kind \in {"max", "min"} => Head(choices).s + Head(choices).n <= End
         /\ Head(choices).kind = "min" => Head(choices).n \in {0, 1}
         /\ Head(choices).kind # "start" => Sound(src, End, "on", Head(choices).s, cap, Tail(choices))
         /\ Head(choices).kind = "start" => Sound(src, End, "on", Head(choices).s, SubSeq(cap, 1, Len(cap) - 1), Tail(choices))
    BY <2>12, <1>3, SoundPop
  <2>1. PICK c \in Waits : /\ c = Head(choices) /\ c.s \in src .. End /\ (c.kind \in {"max", "min"} => c.s + c.n <= End)
                           /\ c.kind = "min" => c.n \in {0, 1}
    BY <2>14
  <2>2. PICK caps, rest : caps = Undone(c) /\ rest = Tail(choices)
    OBVIOUS
  <2>15. /\ c.kind # "start" => Sound(src, End, "on", c.s, cap, rest)
         /\ c.kind = "start" => Sound(src, End, "on", c.s, SubSeq(cap, 1, Len(cap) - 1), rest)
    BY ZenonT(30), <2>1, <2>2, <2>14
  <2>3. c.s \in Nat /\ c.n \in Nat /\ c.p \in Int /\ c.p + 1 \in Int /\ c.kind \in {"max", "min", "start", "end"}
    BY <2>1 DEF Waits
  <2>16. src <= c.s /\ c.s <= e /\ (c.kind \in {"max", "min"} => c.s + c.n <= e)
    BY <2>1, <2>13
  <2>4. Sound(src, End, "on", c.s, caps, rest)
    <3>1. CASE c.kind = "start"
      <4>1. caps = SubSeq(cap, 1, Len(cap) - 1)
        BY <3>1, <2>2 DEF Undone
      <4> QED BY <4>1, <3>1, <2>15
    <3>2. CASE c.kind # "start"
      <4>1. Sound(src, End, "on", c.s, cap, rest)
        BY <3>2, <2>15
      <4>2. CASE c.kind = "end"
        <5>1. caps = [cap EXCEPT ![c.n].len = Unfinished] /\ Unfinished \in Lens
          BY <4>2, <2>2 DEF Undone, Lens
        <5> QED BY <5>1, <4>1, SoundCaptures
      <4>3. CASE c.kind # "end"
        <5>1. caps = cap
          BY <4>3, <3>2, <2>2 DEF Undone
        <5> QED BY <5>1, <4>1
      <4> QED BY <4>2, <4>3
    <3> QED BY <3>1, <3>2
  <2>5. PICK again, longer :
          /\ again = [c EXCEPT !.n = @ - 1]
          /\ longer = IF In(c.s + 1, pattern[c.p].set) THEN <<[c EXCEPT !.s = @ + 1]>> ELSE <<>>
    OBVIOUS
  <2>6. /\ cap' = caps
        /\ \/ /\ c.kind = "max" /\ way' = "on" /\ s' = c.s + c.n /\ p' = c.p + 1
              /\ choices' = IF c.n = 0 THEN rest ELSE <<again>> \o rest
           \/ /\ c.kind = "min" /\ way' = "on" /\ s' = c.s + c.n /\ p' = c.p + 1
              /\ choices' = (IF c.n = 0 THEN <<>> ELSE longer) \o rest
           \/ /\ c.kind \in {"start", "end"} /\ way' = "back"
              /\ choices' = rest /\ UNCHANGED <<s, p>>
    BY ZenonT(30), <1>3, <2>1, <2>2, <2>5 DEF Back
  <2>7. c.kind \in {"max", "min"} => c.s + c.n \in c.s .. End
    BY <2>16, <2>3, <2>13
  <2>8. rest \in Seq(Waits) /\ <<>> \o rest = rest
    <3>1. rest \in Seq(Waits)
      BY <1>1, <1>3, <2>2
    <3> QED BY <3>1
  <2>9. CASE c.kind = "max"
    <3>1. CASE c.n = 0
      <4>1. Sound(src, End, "on", c.s + c.n, caps, rest)
        BY <2>4, <2>7, <2>9, SoundOn
      <4> QED BY <4>1, <3>1, <2>3, <2>6, <2>9 DEF StillMatching
    <3>2. CASE c.n # 0
      <4>1. again \in Waits /\ again.s = c.s /\ again.kind = "max" /\ again.s + again.n <= End
        <5>1. c.n - 1 \in Nat /\ c.s + (c.n - 1) <= End
          BY <3>2, <2>16, <2>3, <2>9, <2>13
        <5>2. again.n = c.n - 1 /\ again.s = c.s /\ again.kind = "max"
          BY <2>1, <2>5, <2>9 DEF Waits
        <5>3. again \in Waits
          BY <5>1, <2>1, <2>5 DEF Waits
        <5> QED BY <5>1, <5>2, <5>3
      <4>2. Sound(src, End, "on", c.s, caps, <<again>> \o rest)
        <5>1. again.s \in c.s .. End
          BY <4>1, <2>16, <2>3, <2>13
        <5> QED BY <5>1, <4>1, <2>4, SoundPush
      <4>3. Sound(src, End, "on", c.s + c.n, caps, <<again>> \o rest)
        BY <4>2, <2>7, <2>9, SoundOn
      <4> QED BY <4>3, <3>2, <2>3, <2>6, <2>9 DEF StillMatching
    <3> QED BY <3>1, <3>2
  <2>10. CASE c.kind = "min"
    <3>1. CASE c.n = 0 \/ longer = <<>>
      <4>1. Sound(src, End, "on", c.s + c.n, caps, rest)
        BY <2>4, <2>7, <2>10, SoundOn
      <4>2. choices' = rest
        BY <3>1, <2>6, <2>8, <2>10
      <4> QED BY <4>1, <4>2, <2>3, <2>6, <2>10 DEF StillMatching
    <3>2. CASE c.n # 0 /\ longer # <<>>
      <4>1. PICK long : long = [c EXCEPT !.s = @ + 1] /\ longer = <<long>> /\ In(c.s + 1, pattern[c.p].set)
        BY <3>2, <2>5
      <4>2. c.s + 1 < e
        BY <4>1, <2>13 DEF In
      <4>3. long \in Waits /\ long.s = c.s + 1 /\ long.n = c.n /\ long.kind = "min"
        BY <4>1, <2>1, <2>3, <2>10 DEF Waits
      <4>4. long.s \in c.s .. End /\ long.s + long.n <= End
        BY <4>2, <4>3, <2>1, <2>16, <2>3, <2>10, <2>13
      <4>5. Sound(src, End, "on", c.s, caps, <<long>> \o rest)
        BY <4>3, <4>4, <2>1, <2>4, <2>10, SoundPush
      <4>6. Sound(src, End, "on", c.s + c.n, caps, <<long>> \o rest)
        BY <4>5, <2>7, <2>10, SoundOn
      <4> QED BY <4>1, <4>6, <3>2, <2>3, <2>6, <2>10 DEF StillMatching
    <3> QED BY <3>1, <3>2
  <2>11. CASE c.kind \in {"start", "end"}
    <3>1. s \in src .. End
      BY <1>1, <2>12 DEF Sound
    <3>2. Sound(src, End, "back", s, caps, rest)
      BY <2>4, <3>1, SoundBack
    <3> QED BY <3>2, <2>3, <2>6, <2>11, <1>1 DEF StillMatching
  <2> QED BY <2>3, <2>9, <2>10, <2>11
<1> QED BY <1>2, <1>3

-----------------------------------------------------------------------------
(* The matcher does one thing from a state: the same call of it ends in the *)
(* same way.                                                                *)

\* Of two sequences of steps that agree as long as both go on, and of which neither goes on
\* from where the other ends.
Alike(n, m, ff, gg) ==
  /\ ff[0] = gg[0]
  /\ \A k \in Nat : k < n /\ k < m /\ ff[k] = gg[k] => ff[k + 1] = gg[k + 1]
  /\ \A k \in 0 .. n - 1 : ff[k] # gg[m]
  /\ \A k \in 0 .. m - 1 : gg[k] # ff[n]
LEMMA Twins ==
  ASSUME NEW n \in Nat, NEW m \in Nat, NEW ff, NEW gg, Alike(n, m, ff, gg)
  PROVE  ff[n] = gg[m]
<1>0. /\ ff[0] = gg[0]
      /\ \A k \in Nat : k < n /\ k < m /\ ff[k] = gg[k] => ff[k + 1] = gg[k + 1]
      /\ \A k \in 0 .. n - 1 : ff[k] # gg[m]
      /\ \A k \in 0 .. m - 1 : gg[k] # ff[n]
  BY Zenon DEF Alike
<1> DEFINE T == {k \in Nat : k <= n /\ k <= m => ff[k] = gg[k]}
<1>1. ASSUME NEW k \in Nat, k <= n, k <= m PROVE ff[k] = gg[k]
  <2>1. 0 \in T
    BY <1>0
  <2>2. ASSUME NEW j \in 0 .. k - 1, j \in T PROVE j + 1 \in T
    <3>1. j \in Nat /\ j + 1 \in Nat /\ j < n /\ j < m
      BY <2>2, <1>1
    <3>2. ff[j] = gg[j]
      BY <2>2, <3>1
    <3> QED BY <3>1, <3>2, <1>0
  <2>3. k \in T
    <3>1. k \in 0 .. k
      BY <1>1
    <3> HIDE DEF T
    <3> QED BY <2>1, <2>2, <3>1, Induct
  <2> QED BY <2>3, <1>1
<1>2. CASE n <= m
  <2>1. ff[n] = gg[n]
    BY <1>1, <1>2
  <2> QED BY <2>1, <1>2, <1>0
<1>3. CASE m <= n
  <2>1. ff[m] = gg[m]
    BY <1>1, <1>3
  <2> QED BY <2>1, <1>3, <1>0
<1> QED BY <1>2, <1>3

\* What the matcher of a subject and a pattern does, as a function of where it is: what a
\* single part and what an activation that gets its turn make of
\* <<way, s, p, cap, choices>>.
Entry(sub, i, set)   == i < Len(sub) + 1 /\ sub[i] \in set
Most(sub, i, set)    == CHOOSE n \in 0 .. (Len(sub) + 1) - i :
                          (\A j \in 0 .. n - 1 : Entry(sub, i + j, set)) /\ ~Entry(sub, i + n, set)
OpenIn(caps)         == {l \in DOMAIN caps : caps[l].len = Unfinished}
LastOpen(caps)       == CHOOSE l \in OpenIn(caps) : \A m \in OpenIn(caps) : m <= l
Surplus(sub, from, to, bb, ee) ==
  Cardinality({i \in from .. to : sub[i] = bb}) - Cardinality({i \in from .. to : sub[i] = ee})
FirstOf(set)         == CHOOSE i \in set : \A j \in set : i <= j
Closings(sub, at, bb, ee) ==
  {i \in at + 1 .. Len(sub) : sub[i] = ee /\ Surplus(sub, at, i, bb, ee) = 0}

Along(to, q, caps, waits) == <<"on", to, q + 1, caps, waits>>
Failed(at, q, caps, waits) == <<"back", at, q, caps, waits>>
Broken(at, q, caps, waits) == <<"error", at, q, caps, waits>>

Expanded(sub, set, i, q, caps, waits) ==
  Along(i + Most(sub, i, set), q, caps,
        (IF Most(sub, i, set) = 0 THEN <<>>
         ELSE <<[kind |-> "max", s |-> i, p |-> q, n |-> Most(sub, i, set) - 1]>>) \o waits)
AfterSingle(sub, rep, set, at, q, caps, waits) ==
  CASE rep = "1" -> IF Entry(sub, at, set) THEN Along(at + 1, q, caps, <<>> \o waits) ELSE Failed(at, q, caps, waits)
    [] rep = "?" -> IF Entry(sub, at, set)
                    THEN Along(at + 1, q, caps, <<[kind |-> "min", s |-> at, p |-> q, n |-> 0]>> \o waits)
                    ELSE Along(at, q, caps, <<>> \o waits)
    [] rep = "*" -> Expanded(sub, set, at, q, caps, waits)
    [] rep = "+" -> IF Entry(sub, at, set) THEN Expanded(sub, set, at + 1, q, caps, waits)
                    ELSE Failed(at, q, caps, waits)
    [] OTHER -> Along(at, q, caps, (IF Entry(sub, at, set) THEN <<[kind |-> "min", s |-> at, p |-> q, n |-> 1]>>
                                    ELSE <<>>) \o waits)
AfterStart(what, at, q, caps, waits) ==
  IF Len(caps) >= MaxCaptures THEN Broken(at, q, caps, waits)
  ELSE Along(at, q, Append(caps, [init |-> at, len |-> what]),
             <<[kind |-> "start", s |-> at, p |-> q, n |-> 0]>> \o waits)
AfterEnd(at, q, caps, waits) ==
  IF OpenIn(caps) = {} THEN Broken(at, q, caps, waits)
  ELSE Along(at, q, [caps EXCEPT ![LastOpen(caps)].len = at - caps[LastOpen(caps)].init],
             <<[kind |-> "end", s |-> at, p |-> q, n |-> LastOpen(caps)]>> \o waits)
AfterCapture(sub, l, at, q, caps, waits) ==
  IF l \notin DOMAIN caps \ OpenIn(caps) THEN Broken(at, q, caps, waits)
  ELSE IF caps[l].len # Position /\ caps[l].len <= (Len(sub) + 1) - at
          /\ \A i \in 0 .. caps[l].len - 1 : sub[caps[l].init + i] = sub[at + i]
       THEN Along(at + caps[l].len, q, caps, <<>> \o waits) ELSE Failed(at, q, caps, waits)
AfterBalance(sub, bb, ee, at, q, caps, waits) ==
  IF ~Entry(sub, at, {bb}) \/ Closings(sub, at, bb, ee) = {} THEN Failed(at, q, caps, waits)
  ELSE Along(1 + FirstOf(Closings(sub, at, bb, ee)), q, caps, <<>> \o waits)
AfterTest(holds, at, q, caps, waits) ==
  IF holds THEN Along(at, q, caps, <<>> \o waits) ELSE Failed(at, q, caps, waits)
AfterPart(sub, part, at, q, caps, waits) ==
  CASE part.op = "set" -> AfterSingle(sub, part.rep, part.set, at, q, caps, waits)
    [] part.op = "("   -> AfterStart(Unfinished, at, q, caps, waits)
    [] part.op = "()"  -> AfterStart(Position, at, q, caps, waits)
    [] part.op = ")"   -> AfterEnd(at, q, caps, waits)
    [] part.op = "%1"  -> AfterCapture(sub, 1, at, q, caps, waits)
    [] part.op = "%b"  -> AfterBalance(sub, "a", "b", at, q, caps, waits)
    [] part.op = "%f"  -> AfterTest(~((at > 1 /\ Entry(sub, at - 1, part.set)) \/ ~Entry(sub, at, part.set)),
                                    at, q, caps, waits)
    [] part.op = "$"   -> AfterTest(at = Len(sub) + 1, at, q, caps, waits)
    [] OTHER           -> Failed(at, q, caps, waits)

UndoneIn(caps, c) ==
  CASE c.kind = "start" -> SubSeq(caps, 1, Len(caps) - 1)
    [] c.kind = "end"   -> [caps EXCEPT ![c.n].len = Unfinished]
    [] OTHER            -> caps
AfterTurn(sub, pat, at, q, caps, c, rest) ==
  CASE c.kind = "max" -> Along(c.s + c.n, c.p, caps,
                               IF c.n = 0 THEN rest ELSE <<[c EXCEPT !.n = c.n - 1]>> \o rest)
    [] c.kind = "min" -> Along(c.s + c.n, c.p, caps,
                               (IF c.n = 0 THEN <<>>
                                ELSE IF Entry(sub, c.s + 1, pat[c.p].set) THEN <<[c EXCEPT !.s = c.s + 1]>>
                                ELSE <<>>) \o rest)
    [] OTHER          -> Failed(at, q, caps, rest)
AfterBack(sub, pat, at, q, caps, waits) ==
  IF waits = <<>> THEN <<"none", at, q, caps, waits>>
  ELSE AfterTurn(sub, pat, at, q, UndoneIn(caps, Head(waits)), Head(waits), Tail(waits))
AtLast(at, q, caps, waits) == <<IF OpenIn(caps) = {} THEN "found" ELSE "error", at, q, caps, waits>>
Moved(sub, pat, x) ==
  IF x[1] = "back" THEN AfterBack(sub, pat, x[2], x[3], x[4], x[5])
  ELSE IF x[3] <= Len(pat) THEN AfterPart(sub, pat[x[3]], x[2], x[3], x[4], x[5])
       ELSE AtLast(x[2], x[3], x[4], x[5])

Becomes(x) == <<way', s', p', cap', choices'>> = x

LEMMA SameGoing ==
  ASSUME NEW to, NEW waits, GoOn(to, p + 1, waits)
  PROVE  Becomes(Along(to, p, cap', waits \o choices))
BY Zenon DEF GoOn, Becomes, Along

LEMMA SameFailing ==
  ASSUME UNCHANGED cap
  PROVE  /\ GoBack => Becomes(Failed(s, p, cap, choices))
         /\ Abort => Becomes(Broken(s, p, cap, choices))
BY DEF GoBack, Abort, Becomes, Failed, Broken

LEMMA SameIn ==
  ASSUME NEW i, NEW set
  PROVE  /\ In(i, set) <=> Entry(subject, i, set)
         /\ Longest(i, set) = Most(subject, i, set)
         /\ Open = OpenIn(cap)
<1>1. \A j : In(j, set) <=> Entry(subject, j, set)
  BY DEF In, Entry, End
<1>2. Longest(i, set) = Most(subject, i, set)
  BY Zenon DEF Longest, Most, In, Entry, End
<1> QED BY <1>1, <1>2 DEF Open, OpenIn

LEMMA SameSingle ==
  ASSUME NEW set, Single(set)
  PROVE  Becomes(AfterSingle(subject, pattern[p].rep, set, s, p, cap, choices))
<1>1. cap' = cap
  BY DEF Single
<1>2. PICK rep : rep = pattern[p].rep
  OBVIOUS
<1>3. In(s, set) <=> Entry(subject, s, set)
  BY SameIn
<1>4. \A kind, n : Choice(kind, n) = [kind |-> kind, s |-> s, p |-> p, n |-> n]
  BY DEF Choice
<1>5. ASSUME NEW i, LET n == Longest(i, set) IN
             GoOn(i + n, p + 1, IF n = 0 THEN <<>> ELSE <<[Choice("max", n - 1) EXCEPT !.s = i]>>)
      PROVE  Becomes(Expanded(subject, set, i, p, cap, choices))
  <2>1. PICK n : n = Longest(i, set)
    OBVIOUS
  <2>2. n = Most(subject, i, set)
    BY <2>1, SameIn
  <2>3. [Choice("max", n - 1) EXCEPT !.s = i] = [kind |-> "max", s |-> i, p |-> p, n |-> n - 1]
    BY DEF Choice
  <2>4. GoOn(i + n, p + 1, IF n = 0 THEN <<>> ELSE <<[kind |-> "max", s |-> i, p |-> p, n |-> n - 1]>>)
    <3>1. GoOn(i + n, p + 1, IF n = 0 THEN <<>> ELSE <<[Choice("max", n - 1) EXCEPT !.s = i]>>)
      BY Zenon, <1>5, <2>1
    <3> QED BY Zenon, <3>1, <2>3
  <2>5. Becomes(Along(i + n, p, cap, (IF n = 0 THEN <<>> ELSE <<[kind |-> "max", s |-> i, p |-> p, n |-> n - 1]>>) \o choices))
    BY Zenon, <2>4, <1>1, SameGoing
  <2> QED BY Zenon, <2>5, <2>2 DEF Expanded
<1>6. CASE rep = "1" /\ (IF In(s, set) THEN GoOn(s + 1, p + 1, <<>>) ELSE GoBack)
  <2>1. AfterSingle(subject, rep, set, s, p, cap, choices)
          = IF Entry(subject, s, set) THEN Along(s + 1, p, cap, <<>> \o choices) ELSE Failed(s, p, cap, choices)
    BY <1>6 DEF AfterSingle
  <2> QED BY Zenon, <2>1, <1>1, <1>2, <1>3, <1>6, SameGoing, SameFailing
<1>7. CASE rep = "?" /\ (IF In(s, set) THEN GoOn(s + 1, p + 1, <<Choice("min", 0)>>) ELSE GoOn(s, p + 1, <<>>))
  <2>1. AfterSingle(subject, rep, set, s, p, cap, choices)
          = IF Entry(subject, s, set) THEN Along(s + 1, p, cap, <<[kind |-> "min", s |-> s, p |-> p, n |-> 0]>> \o choices)
            ELSE Along(s, p, cap, <<>> \o choices)
    BY <1>7 DEF AfterSingle
  <2> QED BY Zenon, <2>1, <1>1, <1>2, <1>3, <1>4, <1>7, SameGoing
<1>8. CASE rep = "-" /\ GoOn(s, p + 1, IF In(s, set) THEN <<Choice("min", 1)>> ELSE <<>>)
  <2>1. AfterSingle(subject, rep, set, s, p, cap, choices)
          = Along(s, p, cap, (IF Entry(subject, s, set) THEN <<[kind |-> "min", s |-> s, p |-> p, n |-> 1]>> ELSE <<>>) \o choices)
    BY <1>8 DEF AfterSingle
  <2>2. GoOn(s, p + 1, IF Entry(subject, s, set) THEN <<[kind |-> "min", s |-> s, p |-> p, n |-> 1]>> ELSE <<>>)
    BY Zenon, <1>3, <1>4, <1>8
  <2> QED BY Zenon, <2>1, <2>2, <1>1, <1>2, SameGoing
<1>9. CASE rep = "*" /\ LET n == Longest(s, set) IN
              GoOn(s + n, p + 1, IF n = 0 THEN <<>> ELSE <<[Choice("max", n - 1) EXCEPT !.s = s]>>)
  <2>1. AfterSingle(subject, rep, set, s, p, cap, choices) = Expanded(subject, set, s, p, cap, choices)
    BY <1>9 DEF AfterSingle
  <2> QED BY Zenon, <2>1, <1>2, <1>5, <1>9
<1>10. CASE rep = "+" /\ (IF In(s, set)
              THEN LET n == Longest(s + 1, set) IN
                   GoOn((s + 1) + n, p + 1, IF n = 0 THEN <<>> ELSE <<[Choice("max", n - 1) EXCEPT !.s = s + 1]>>)
              ELSE GoBack)
  <2>1. AfterSingle(subject, rep, set, s, p, cap, choices)
          = IF Entry(subject, s, set) THEN Expanded(subject, set, s + 1, p, cap, choices) ELSE Failed(s, p, cap, choices)
    BY <1>10 DEF AfterSingle
  <2> QED BY Zenon, <2>1, <1>1, <1>2, <1>3, <1>5, <1>10, SameFailing
<1> QED BY <1>2, <1>6, <1>7, <1>8, <1>9, <1>10 DEF Single

LEMMA SameStart ==
  ASSUME NEW what, StartCapture(what)
  PROVE  Becomes(AfterStart(what, s, p, cap, choices))
<1>1. CASE Len(cap) >= MaxCaptures
  BY <1>1, SameFailing DEF StartCapture, AfterStart
<1>2. CASE ~(Len(cap) >= MaxCaptures)
  <2>1. cap' = Append(cap, [init |-> s, len |-> what]) /\ GoOn(s, p + 1, <<Choice("start", 0)>>)
    BY <1>2 DEF StartCapture
  <2>2. Choice("start", 0) = [kind |-> "start", s |-> s, p |-> p, n |-> 0]
    BY DEF Choice
  <2>3. Becomes(Along(s, p, cap', <<Choice("start", 0)>> \o choices))
    BY <2>1, SameGoing
  <2> QED BY Zenon, <1>2, <2>1, <2>2, <2>3 DEF AfterStart
<1> QED BY <1>1, <1>2

LEMMA SameEnd ==
  ASSUME EndCapture
  PROVE  Becomes(AfterEnd(s, p, cap, choices))
<1>1. Open = OpenIn(cap)
  BY SameIn
<1>2. CASE Open = {}
  BY <1>1, <1>2, SameFailing DEF EndCapture, AfterEnd
<1>3. CASE Open # {}
  <2>1. PICK l : /\ l = CHOOSE k \in Open : \A m \in Open : m <= k
                 /\ cap' = [cap EXCEPT ![l].len = s - cap[l].init]
                 /\ GoOn(s, p + 1, <<Choice("end", l)>>)
    BY <1>3 DEF EndCapture
  <2>2. l = LastOpen(cap)
    BY Zenon, <1>1, <2>1 DEF LastOpen
  <2>3. Choice("end", l) = [kind |-> "end", s |-> s, p |-> p, n |-> l]
    BY DEF Choice
  <2>4. Becomes(Along(s, p, cap', <<Choice("end", l)>> \o choices))
    BY <2>1, SameGoing
  <2>5. AfterEnd(s, p, cap, choices) = Along(s, p, [cap EXCEPT ![l].len = s - cap[l].init], <<[kind |-> "end", s |-> s, p |-> p, n |-> l]>> \o choices)
    BY Zenon, <1>1, <1>3, <2>2 DEF AfterEnd
  <2> QED BY Zenon, <2>1, <2>3, <2>4, <2>5
<1> QED BY <1>2, <1>3

LEMMA SameCapture ==
  ASSUME NEW l, MatchCapture(l)
  PROVE  Becomes(AfterCapture(subject, l, s, p, cap, choices))
<1>1. cap' = cap
  BY DEF MatchCapture
<1>2. Open = OpenIn(cap)
  BY SameIn
<1> QED BY Zenon, <1>1, <1>2, SameGoing, SameFailing DEF MatchCapture, AfterCapture, End

LEMMA SameBalance ==
  ASSUME NEW bb, NEW ee, Balance(bb, ee)
  PROVE  Becomes(AfterBalance(subject, bb, ee, s, p, cap, choices))
<1>1. cap' = cap
  BY DEF Balance
<1>2. In(s, {bb}) <=> Entry(subject, s, {bb})
  BY SameIn
<1>3. {i \in s + 1 .. Len(subject) : subject[i] = ee /\ Excess(s, i, bb, ee) = 0} = Closings(subject, s, bb, ee)
  BY Zenon DEF Closings, Excess, Surplus
<1>4. PICK ends : ends = Closings(subject, s, bb, ee)
  OBVIOUS
<1>5. IF ~In(s, {bb}) \/ ends = {} THEN GoBack
      ELSE GoOn(1 + CHOOSE i \in ends : \A j \in ends : i <= j, p + 1, <<>>)
  BY Zenon, <1>3, <1>4 DEF Balance
<1>6. AfterBalance(subject, bb, ee, s, p, cap, choices)
        = IF ~Entry(subject, s, {bb}) \/ ends = {} THEN Failed(s, p, cap, choices)
          ELSE Along(1 + FirstOf(ends), p, cap, <<>> \o choices)
  BY Zenon, <1>4 DEF AfterBalance
<1>7. IF ~In(s, {bb}) \/ ends = {} THEN GoBack ELSE GoOn(1 + FirstOf(ends), p + 1, <<>>)
  BY Zenon, <1>5 DEF FirstOf
<1> QED BY Zenon, <1>1, <1>2, <1>6, <1>7, SameGoing, SameFailing

LEMMA SamePart ==
  ASSUME Part
  PROVE  Becomes(AfterPart(subject, pattern[p], s, p, cap, choices))
<1>1. PICK part : part = pattern[p]
  OBVIOUS
<1>2. CASE part.op = "set" /\ Single(part.set)
  BY <1>1, <1>2, SameSingle DEF AfterPart
<1>3. CASE part.op = "(" /\ StartCapture(Unfinished)
  BY <1>1, <1>3, SameStart DEF AfterPart
<1>4. CASE part.op = "()" /\ StartCapture(Position)
  BY <1>1, <1>4, SameStart DEF AfterPart
<1>5. CASE part.op = ")" /\ EndCapture
  BY <1>1, <1>5, SameEnd DEF AfterPart
<1>6. CASE part.op = "%1" /\ MatchCapture(1)
  BY <1>1, <1>6, SameCapture DEF AfterPart
<1>7. CASE part.op = "%b" /\ Balance("a", "b")
  BY <1>1, <1>7, SameBalance DEF AfterPart
<1>8. ASSUME NEW holds, cap' = cap, IF holds THEN GoOn(s, p + 1, <<>>) ELSE GoBack
      PROVE  Becomes(AfterTest(holds, s, p, cap, choices))
  BY Zenon, <1>8, SameGoing, SameFailing DEF AfterTest
<1>9. CASE part.op = "%f" /\ Frontier(part.set)
  <2>1. PICK holds \in BOOLEAN : holds = ~((s > 1 /\ In(s - 1, part.set)) \/ ~In(s, part.set))
    OBVIOUS
  <2>2. cap' = cap /\ IF holds THEN GoOn(s, p + 1, <<>>) ELSE GoBack
    BY <1>9, <2>1 DEF Frontier
  <2>3. holds = ~((s > 1 /\ Entry(subject, s - 1, part.set)) \/ ~Entry(subject, s, part.set))
    BY <2>1, SameIn
  <2>4. AfterPart(subject, part, s, p, cap, choices) = AfterTest(holds, s, p, cap, choices)
    BY <1>9, <2>3 DEF AfterPart
  <2> QED BY <2>2, <2>4, <1>1, <1>8
<1>10. CASE part.op = "$" /\ AtEnd
  <2>1. PICK holds \in BOOLEAN : holds = (s = End)
    OBVIOUS
  <2>2. cap' = cap /\ IF holds THEN GoOn(s, p + 1, <<>>) ELSE GoBack
    BY <1>10, <2>1 DEF AtEnd
  <2>3. AfterPart(subject, part, s, p, cap, choices) = AfterTest(holds, s, p, cap, choices)
    BY <1>10, <2>1 DEF AfterPart, End
  <2> QED BY <2>2, <2>3, <1>1, <1>8
<1>11. CASE part.op = "^" /\ GoBack /\ UNCHANGED cap
  BY <1>1, <1>11, SameFailing DEF AfterPart
<1> QED BY Zenon, <1>1, <1>2, <1>3, <1>4, <1>5, <1>6, <1>7, <1>9, <1>10, <1>11 DEF Part

LEMMA SameBack ==
  ASSUME Back
  PROVE  Becomes(AfterBack(subject, pattern, s, p, cap, choices))
<1>1. CASE choices = <<>>
  BY <1>1 DEF Back, AfterBack, Becomes
<1>2. CASE choices # <<>>
  <2>1. PICK c, caps, rest : c = Head(choices) /\ caps = Undone(c) /\ rest = Tail(choices)
    OBVIOUS
  <2>2. caps = UndoneIn(cap, c)
    BY Zenon, <2>1 DEF Undone, UndoneIn
  <2>3. In(c.s + 1, pattern[c.p].set) <=> Entry(subject, c.s + 1, pattern[c.p].set)
    BY SameIn
  <2>4. PICK longer : longer = IF In(c.s + 1, pattern[c.p].set) THEN <<[c EXCEPT !.s = c.s + 1]>> ELSE <<>>
    OBVIOUS
  <2>5. /\ cap' = caps
        /\ \/ /\ c.kind = "max" /\ way' = "on" /\ s' = c.s + c.n /\ p' = c.p + 1
              /\ choices' = IF c.n = 0 THEN rest ELSE <<[c EXCEPT !.n = c.n - 1]>> \o rest
           \/ /\ c.kind = "min" /\ way' = "on" /\ s' = c.s + c.n /\ p' = c.p + 1
              /\ choices' = (IF c.n = 0 THEN <<>> ELSE longer) \o rest
           \/ /\ c.kind \in {"start", "end"} /\ way' = "back"
              /\ choices' = rest /\ UNCHANGED <<s, p>>
    BY ZenonT(30), <1>2, <2>1, <2>4 DEF Back
  <2>6. AfterBack(subject, pattern, s, p, cap, choices) = AfterTurn(subject, pattern, s, p, caps, c, rest)
    BY Zenon, <1>2, <2>1, <2>2 DEF AfterBack
  <2>7. CASE c.kind = "max"
    <3>1. way' = "on" /\ s' = c.s + c.n /\ p' = c.p + 1 /\ choices' = IF c.n = 0 THEN rest ELSE <<[c EXCEPT !.n = c.n - 1]>> \o rest
      BY <2>5, <2>7
    <3>2. AfterTurn(subject, pattern, s, p, caps, c, rest)
            = Along(c.s + c.n, c.p, caps, IF c.n = 0 THEN rest ELSE <<[c EXCEPT !.n = c.n - 1]>> \o rest)
      BY <2>7 DEF AfterTurn
    <3> QED BY Zenon, <2>5, <2>6, <3>1, <3>2 DEF Along, Becomes
  <2>8. CASE c.kind = "min"
    <3>1. way' = "on" /\ s' = c.s + c.n /\ p' = c.p + 1 /\ choices' = (IF c.n = 0 THEN <<>> ELSE longer) \o rest
      BY <2>5, <2>8
    <3>2. longer = IF Entry(subject, c.s + 1, pattern[c.p].set) THEN <<[c EXCEPT !.s = c.s + 1]>> ELSE <<>>
      BY Zenon, <2>3, <2>4
    <3>3. AfterTurn(subject, pattern, s, p, caps, c, rest)
            = Along(c.s + c.n, c.p, caps, (IF c.n = 0 THEN <<>>
                 ELSE IF Entry(subject, c.s + 1, pattern[c.p].set) THEN <<[c EXCEPT !.s = c.s + 1]>> ELSE <<>>) \o rest)
      BY <2>8 DEF AfterTurn
    <3>4. AfterTurn(subject, pattern, s, p, caps, c, rest) = Along(c.s + c.n, c.p, caps, (IF c.n = 0 THEN <<>> ELSE longer) \o rest)
      BY Zenon, <3>2, <3>3
    <3> QED BY Zenon, <2>5, <2>6, <3>1, <3>4 DEF Along, Becomes
  <2>9. CASE c.kind \in {"start", "end"}
    <3>1. way' = "back" /\ choices' = rest /\ s' = s /\ p' = p
      BY <2>5, <2>9
    <3>2. AfterTurn(subject, pattern, s, p, caps, c, rest) = Failed(s, p, caps, rest)
      BY <2>9 DEF AfterTurn
    <3> QED BY Zenon, <2>5, <2>6, <3>1, <3>2 DEF Failed, Becomes
  <2> QED BY <2>5, <2>7, <2>8, <2>9
<1> QED BY <1>1, <1>2

LEMMA SameMove ==
  ASSUME Part \/ PatternEnds \/ Back, p \in Int, Len(pattern) \in Nat
  PROVE  Becomes(Moved(subject, pattern, <<way, s, p, cap, choices>>))
<1>1. PICK x : x = <<way, s, p, cap, choices>> /\ x[1] = way /\ x[2] = s /\ x[3] = p /\ x[4] = cap /\ x[5] = choices
  <2>1. PICK x : x = <<way, s, p, cap, choices>>
    OBVIOUS
  <2>2. x[1] = way /\ x[2] = s /\ x[3] = p /\ x[4] = cap /\ x[5] = choices
    BY <2>1
  <2> QED BY Zenon, <2>1, <2>2
<1>2. CASE Part
  <2>1. x[1] # "back" /\ x[3] <= Len(pattern)
    BY <1>1, <1>2 DEF Part
  <2>2. Moved(subject, pattern, x) = AfterPart(subject, pattern[x[3]], x[2], x[3], x[4], x[5])
    BY Zenon, <2>1 DEF Moved
  <2> QED BY Zenon, <2>2, <1>1, <1>2, SamePart
<1>3. CASE PatternEnds
  <2>1. x[1] # "back"
    BY <1>1, <1>3 DEF PatternEnds
  <2>2. ~(x[3] <= Len(pattern))
    BY <1>1, <1>3 DEF PatternEnds
  <2>3. Moved(subject, pattern, x) = AtLast(s, p, cap, choices)
    BY Zenon, <2>1, <2>2, <1>1 DEF Moved
  <2>4. AtLast(s, p, cap, choices) = <<IF Open = {} THEN "found" ELSE "error", s, p, cap, choices>>
    BY Zenon, SameIn DEF AtLast
  <2>5. way' = (IF Open = {} THEN "found" ELSE "error") /\ s' = s /\ p' = p /\ cap' = cap /\ choices' = choices
    BY <1>3 DEF PatternEnds
  <2> QED BY Zenon, <2>3, <2>4, <2>5, <1>1 DEF Becomes
<1>4. CASE Back
  <2>1. x[1] = "back"
    BY <1>1, <1>4 DEF Back
  <2>2. Moved(subject, pattern, x) = AfterBack(subject, pattern, x[2], x[3], x[4], x[5])
    BY Zenon, <2>1 DEF Moved
  <2> QED BY Zenon, <2>2, <1>1, <1>4, SameBack
<1> QED BY <1>2, <1>3, <1>4

\* Where a call of match at i, with the whole pattern, comes.
GoesOn(x) == x[1] \in {"on", "back"}
MovesAlong(sub, pat, i, n, ff) ==
  ff[0] = <<"on", i, 1, <<>>, <<>>>> /\ \A k \in 0 .. n - 1 : GoesOn(ff[k]) /\ ff[k + 1] = Moved(sub, pat, ff[k])
Reaches(sub, pat, i, y) == \E n \in Nat : \E ff : MovesAlong(sub, pat, i, n, ff) /\ ff[n] = y
Results(sub, pat, i, w, e) ==
  w \in {"found", "none"} /\ \E y : Reaches(sub, pat, i, y) /\ y[1] = w /\ y[2] = e

LEMMA ReachesStart ==
  ASSUME NEW sub, NEW pat, NEW i
  PROVE  Reaches(sub, pat, i, <<"on", i, 1, <<>>, <<>>>>)
<1>1. PICK x : x = <<"on", i, 1, <<>>, <<>>>>
  OBVIOUS
<1>2. PICK ff : ff = [k \in {0} |-> x]
  OBVIOUS
<1>3. ff[0] = x /\ \A k \in 0 .. 0 - 1 : FALSE
  BY <1>2
<1>4. MovesAlong(sub, pat, i, 0, ff)
  BY Zenon, <1>1, <1>3 DEF MovesAlong
<1>5. 0 \in Nat
  OBVIOUS
<1> QED BY Zenon, <1>1, <1>3, <1>4, <1>5 DEF Reaches

LEMMA ReachesNext ==
  ASSUME NEW sub, NEW pat, NEW i, NEW y, Reaches(sub, pat, i, y), GoesOn(y)
  PROVE  Reaches(sub, pat, i, Moved(sub, pat, y))
<1>10. PICK n \in Nat : \E ff : MovesAlong(sub, pat, i, n, ff) /\ ff[n] = y
  BY DEF Reaches
<1>1. PICK ff : MovesAlong(sub, pat, i, n, ff) /\ ff[n] = y
  BY <1>10
<1>2. PICK z : z = Moved(sub, pat, y)
  OBVIOUS
<1>3. PICK gg : gg = [k \in 0 .. n + 1 |-> IF k = n + 1 THEN z ELSE ff[k]]
  OBVIOUS
<1>4. n + 1 \in Nat /\ gg[n + 1] = z /\ \A k \in 0 .. n : gg[k] = ff[k]
  BY <1>3
<1>5. ASSUME NEW k \in 0 .. (n + 1) - 1 PROVE GoesOn(gg[k]) /\ gg[k + 1] = Moved(sub, pat, gg[k])
  <2>1. CASE k = n
    <3>1. gg[k] = y /\ gg[k + 1] = z
      BY <2>1, <1>1, <1>4
    <3> QED BY <3>1, <1>2
  <2>2. CASE k # n
    <3>1. k \in 0 .. n - 1 /\ k \in 0 .. n /\ k + 1 \in 0 .. n
      BY <2>2
    <3>2. GoesOn(ff[k]) /\ ff[k + 1] = Moved(sub, pat, ff[k])
      BY Zenon, <3>1, <1>1 DEF MovesAlong
    <3>3. gg[k] = ff[k] /\ gg[k + 1] = ff[k + 1]
      BY <3>1, <1>4
    <3> QED BY Zenon, <3>2, <3>3
  <2> QED BY <2>1, <2>2
<1>6. gg[0] = ff[0]
  BY <1>4
<1>7. MovesAlong(sub, pat, i, n + 1, gg)
  BY Zenon, <1>1, <1>5, <1>6 DEF MovesAlong
<1> QED BY Zenon, <1>2, <1>4, <1>7 DEF Reaches

LEMMA OneResult ==
  ASSUME NEW sub, NEW pat, NEW i, NEW w, NEW e, NEW v, NEW d,
         Results(sub, pat, i, w, e), Results(sub, pat, i, v, d)
  PROVE  w = v /\ e = d
<1>1. PICK y : Reaches(sub, pat, i, y) /\ y[1] = w /\ y[2] = e
  BY Zenon DEF Results
<1>2. PICK z : Reaches(sub, pat, i, z) /\ z[1] = v /\ z[2] = d
  BY Zenon DEF Results
<1>3. ~GoesOn(y) /\ ~GoesOn(z)
  BY <1>1, <1>2 DEF Results, GoesOn
<1>14. PICK n \in Nat : \E ff : MovesAlong(sub, pat, i, n, ff) /\ ff[n] = y
  BY <1>1 DEF Reaches
<1>4. PICK ff : MovesAlong(sub, pat, i, n, ff) /\ ff[n] = y
  BY <1>14
<1>15. PICK m \in Nat : \E gg : MovesAlong(sub, pat, i, m, gg) /\ gg[m] = z
  BY <1>2 DEF Reaches
<1>5. PICK gg : MovesAlong(sub, pat, i, m, gg) /\ gg[m] = z
  BY <1>15
<1>6. ff[0] = gg[0]
  BY Zenon, <1>4, <1>5 DEF MovesAlong
<1>7. ASSUME NEW k \in Nat, k < n, k < m, ff[k] = gg[k] PROVE ff[k + 1] = gg[k + 1]
  <2>1. k \in 0 .. n - 1 /\ k \in 0 .. m - 1
    BY <1>7
  <2> QED BY Zenon, <2>1, <1>4, <1>5, <1>7 DEF MovesAlong
<1>8. (\A k \in 0 .. n - 1 : ff[k] # gg[m]) /\ (\A k \in 0 .. m - 1 : gg[k] # ff[n])
  BY Zenon, <1>3, <1>4, <1>5 DEF MovesAlong
<1>10. Alike(n, m, ff, gg)
  BY Zenon, <1>6, <1>7, <1>8 DEF Alike
<1>9. ff[n] = gg[m]
  BY <1>10, Twins
<1> QED BY Zenon, <1>1, <1>2, <1>4, <1>5, <1>9

-----------------------------------------------------------------------------
(* The loops of str_gsub and gmatch_aux, from match to match.               *)

Following(i, w, e)   == IF w = "found" /\ e > i THEN e ELSE i + 1
Noted(list, i, w, e) == IF w = "found" THEN Append(list, [from |-> i, to |-> e]) ELSE list
Turn(sub, pat, x, y) ==
  /\ x[1] <= Len(sub) + 1
  /\ \E w, e : /\ Results(sub, pat, x[1], w, e)
               /\ y = <<Following(x[1], w, e), Noted(x[2], x[1], w, e)>>
TurnsAlong(sub, pat, n, ff) == ff[0] = <<1, <<>>>> /\ \A k \in 0 .. n - 1 : Turn(sub, pat, ff[k], ff[k + 1])
\* The loop has come to a place with these matches; it has ended with them.
Turns(sub, pat, at, list) == \E n \in Nat : \E ff : TurnsAlong(sub, pat, n, ff) /\ ff[n] = <<at, list>>
Ends(sub, pat, list) == \E at \in Int : at > Len(sub) + 1 /\ Turns(sub, pat, at, list)

LEMMA TurnsStart ==
  ASSUME NEW sub, NEW pat
  PROVE  Turns(sub, pat, 1, <<>>)
<1>1. PICK x : x = <<1, <<>>>>
  OBVIOUS
<1>2. PICK ff : ff = [k \in {0} |-> x]
  OBVIOUS
<1>3. ff[0] = x /\ \A k \in 0 .. 0 - 1 : FALSE
  BY <1>2
<1>4. TurnsAlong(sub, pat, 0, ff)
  BY Zenon, <1>1, <1>3 DEF TurnsAlong
<1>5. 0 \in Nat
  OBVIOUS
<1> QED BY Zenon, <1>1, <1>3, <1>4, <1>5 DEF Turns

LEMMA TurnsNext ==
  ASSUME NEW sub, NEW pat, NEW at, NEW list, Turns(sub, pat, at, list), at <= Len(sub) + 1,
         NEW w, NEW e, Results(sub, pat, at, w, e)
  PROVE  Turns(sub, pat, Following(at, w, e), Noted(list, at, w, e))
<1>10. PICK n \in Nat : \E ff : TurnsAlong(sub, pat, n, ff) /\ ff[n] = <<at, list>>
  BY DEF Turns
<1>1. PICK ff : TurnsAlong(sub, pat, n, ff) /\ ff[n] = <<at, list>>
  BY <1>10
<1>2. PICK z : z = <<Following(at, w, e), Noted(list, at, w, e)>>
  OBVIOUS
<1>3. PICK gg : gg = [k \in 0 .. n + 1 |-> IF k = n + 1 THEN z ELSE ff[k]]
  OBVIOUS
<1>4. n + 1 \in Nat /\ gg[n + 1] = z /\ \A k \in 0 .. n : gg[k] = ff[k]
  BY <1>3
<1>5. ASSUME NEW k \in 0 .. (n + 1) - 1 PROVE Turn(sub, pat, gg[k], gg[k + 1])
  <2>1. CASE k = n
    <3>1. gg[k] = <<at, list>> /\ gg[k + 1] = z
      BY <2>1, <1>1, <1>4
    <3>2. gg[k][1] = at /\ gg[k][2] = list
      BY <3>1
    <3> QED BY Zenon, <3>1, <3>2, <1>2 DEF Turn
  <2>2. CASE k # n
    <3>1. k \in 0 .. n - 1 /\ k \in 0 .. n /\ k + 1 \in 0 .. n
      BY <2>2
    <3>2. Turn(sub, pat, ff[k], ff[k + 1])
      BY Zenon, <3>1, <1>1 DEF TurnsAlong
    <3>3. gg[k] = ff[k] /\ gg[k + 1] = ff[k + 1]
      BY <3>1, <1>4
    <3> QED BY Zenon, <3>2, <3>3
  <2> QED BY <2>1, <2>2
<1>6. gg[0] = ff[0]
  BY <1>4
<1>7. TurnsAlong(sub, pat, n + 1, gg)
  BY Zenon, <1>1, <1>5, <1>6 DEF TurnsAlong
<1> QED BY Zenon, <1>2, <1>4, <1>7 DEF Turns

\* However a loop gets to the end of a subject, it has met the same matches.
LEMMA OneList ==
  ASSUME NEW sub, NEW pat, Len(sub) \in Nat, NEW list, NEW other, Ends(sub, pat, list), Ends(sub, pat, other)
  PROVE  list = other
<1>1. PICK at \in Int : at > Len(sub) + 1 /\ Turns(sub, pat, at, list)
  BY DEF Ends
<1>2. PICK bt \in Int : bt > Len(sub) + 1 /\ Turns(sub, pat, bt, other)
  BY DEF Ends
<1>13. PICK n \in Nat : \E ff : TurnsAlong(sub, pat, n, ff) /\ ff[n] = <<at, list>>
  BY <1>1 DEF Turns
<1>3. PICK ff : TurnsAlong(sub, pat, n, ff) /\ ff[n] = <<at, list>>
  BY <1>13
<1>14. PICK m \in Nat : \E gg : TurnsAlong(sub, pat, m, gg) /\ gg[m] = <<bt, other>>
  BY <1>2 DEF Turns
<1>4. PICK gg : TurnsAlong(sub, pat, m, gg) /\ gg[m] = <<bt, other>>
  BY <1>14
<1>5. ff[0] = gg[0]
  BY Zenon, <1>3, <1>4 DEF TurnsAlong
<1>6. ASSUME NEW x, NEW y, NEW z, Turn(sub, pat, x, y), Turn(sub, pat, x, z) PROVE y = z
  <2>1. PICK w, e : Results(sub, pat, x[1], w, e) /\ y = <<Following(x[1], w, e), Noted(x[2], x[1], w, e)>>
    BY Zenon, <1>6 DEF Turn
  <2>2. PICK v, d : Results(sub, pat, x[1], v, d) /\ z = <<Following(x[1], v, d), Noted(x[2], x[1], v, d)>>
    BY Zenon, <1>6 DEF Turn
  <2> QED BY Zenon, <2>1, <2>2, OneResult
<1>7. ASSUME NEW k \in Nat, k < n, k < m, ff[k] = gg[k] PROVE ff[k + 1] = gg[k + 1]
  <2>1. k \in 0 .. n - 1 /\ k \in 0 .. m - 1
    BY <1>7
  <2>2. Turn(sub, pat, ff[k], ff[k + 1]) /\ Turn(sub, pat, gg[k], gg[k + 1])
    BY Zenon, <2>1, <1>3, <1>4 DEF TurnsAlong
  <2> QED BY Zenon, <2>2, <1>6, <1>7
<1>8. ASSUME NEW x, NEW y, NEW ct \in Int, NEW l, Turn(sub, pat, x, y), ct > Len(sub) + 1 PROVE x # <<ct, l>>
  <2>1. ASSUME x = <<ct, l>> PROVE FALSE
    <3>1. x[1] = ct /\ x[1] <= Len(sub) + 1
      BY <1>8, <2>1 DEF Turn
    <3> QED BY <3>1, <1>8
  <2> QED BY <2>1
<1>9. (\A k \in 0 .. n - 1 : ff[k] # gg[m]) /\ (\A k \in 0 .. m - 1 : gg[k] # ff[n])
  BY Zenon, <1>1, <1>2, <1>3, <1>4, <1>8 DEF TurnsAlong
<1>12. Alike(n, m, ff, gg)
  BY Zenon, <1>5, <1>7, <1>9 DEF Alike
<1>10. ff[n] = gg[m]
  BY <1>12, Twins
<1>11. <<at, list>>[2] = <<bt, other>>[2]
  BY Zenon, <1>3, <1>4, <1>10
<1> QED BY <1>11

-----------------------------------------------------------------------------
(* find, gsub and gmatch.                                                   *)

MatchInv ==
  /\ subject \in Seq(STRING) /\ Len(pattern) \in Nat /\ src \in Nat \ {0} /\ p \in Int
  /\ task \in {"idle", "find", "gsub", "gmatch", "over"}
  /\ task \in {"find", "gsub", "gmatch"} => Matching
  /\ task \in {"idle", "over"} => way \notin {"on", "back"}
  /\ task \in {"idle", "find"} => text = <<>> /\ replacing = <<>> /\ iterating = <<>>
  /\ task = "gsub" => text = SubSeq(subject, 1, src - 1) /\ iterating = <<>>
  /\ task = "gmatch" => text = subject

LEMMA SubjectEnds ==
  ASSUME subject \in Seq(STRING)
  PROVE  Len(subject) \in Nat /\ End \in Nat /\ End = Len(subject) + 1 /\ 1 <= End
BY DEF End

LEMMA NothingCut ==
  ASSUME NEW S, NEW a \in Seq(S)
  PROVE  SubSeq(a, 1, 1 - 1) = <<>> /\ SubSeq(a, 1, Len(a)) = a
<1>1. SubSeq(a, 1, 0) = <<>> /\ 1 - 1 = 0
  OBVIOUS
<1>2. SubSeq(a, 1, Len(a)) = a
  OBVIOUS
<1> QED BY <1>1, <1>2

\* A call of match.
LEMMA CalledSound ==
  ASSUME subject' \in Seq(STRING), NEW i \in Nat \ {0}, i <= End', NEW q \in Int, MatchAt(i, q)
  PROVE  Matching' /\ src' \in Nat \ {0} /\ p' \in Int
<1>1. src' = i /\ way' = "on" /\ s' = i /\ p' = q /\ cap' = <<>> /\ choices' = <<>>
  BY DEF MatchAt
<1>2. PICK e \in Nat : e = End'
  BY DEF End
<1>3. PICK none : none = <<>> /\ none \in Seq(CapturesFrom(i, e)) /\ none \in Seq(Waits) /\ Len(none) = 0
  <2>1. <<>> \in Seq(CapturesFrom(i, e)) /\ <<>> \in Seq(Waits) /\ Len(<<>>) = 0
    OBVIOUS
  <2> QED BY Zenon, <2>1
<1>4. PICK left : left = [k \in {} |-> 0]
  OBVIOUS
<1>5. Leaves(none, none, left)
  BY <1>3, <1>4 DEF Leaves
<1>6. Sound(i, e, "on", i, none, none)
  BY <1>2, <1>3, <1>5 DEF Sound
<1> QED BY <1>1, <1>2, <1>3, <1>6 DEF Matching

LEMMA MatchInitInv == MatchInit => MatchInv
<1> SUFFICES ASSUME MatchInit PROVE MatchInv
  OBVIOUS
<1>1. subject \in Seq(STRING) /\ Len(pattern) \in Nat
  BY DEF MatchInit
<1> QED BY <1>1 DEF MatchInit, MatchInv

LEMMA MatcherKeeps ==
  ASSUME MatchInv, Part \/ PatternEnds \/ Back
  PROVE  MatchInv'
<1>1. UNCHANGED <<subject, pattern, task, src, text, replacing, iterating>> /\ way \in {"on", "back"}
  BY DEF Part, PatternEnds, Back, input, outcome
<1>2. task \in {"find", "gsub", "gmatch"} /\ Matching
  BY <1>1 DEF MatchInv
<1>3. CASE Part \/ Back
  <2>1. StillMatching
    BY <1>2, <1>3, PartSound, BackSound
  <2> QED BY <2>1, <1>1, <1>2 DEF MatchInv, Matching, StillMatching, End
<1>4. CASE PatternEnds
  <2>1. way' \in {"found", "error"} /\ UNCHANGED <<s, p, cap, choices>>
    BY <1>4 DEF PatternEnds
  <2>2. Sound(src, End, way', s, cap, choices)
    BY <2>1, <1>2, SoundEnded DEF Matching
  <2> QED BY <2>1, <2>2, <1>1, <1>2 DEF MatchInv, Matching, End
<1> QED BY <1>3, <1>4

LEMMA AskKeeps ==
  ASSUME MatchInv, task = "idle", NEW sub \in Subjects, NEW pat \in Patterns, Ask(sub, pat)
  PROVE  MatchInv'
<1>1. subject' \in Seq(STRING) /\ Len(pattern') \in Nat /\ task' = "find"
      /\ UNCHANGED <<text, replacing, iterating>>
  <2>1. subject' = sub /\ pattern' = pat /\ task' = "find" /\ UNCHANGED <<text, replacing, iterating>>
    BY DEF Ask, outcome
  <2>2. Subjects \subseteq Seq(STRING)
    BY StringMatchAssumption
  <2>3. \A x \in Patterns : Len(x) \in Nat
    BY StringMatchAssumption
  <2> QED BY <2>1, <2>2, <2>3
<1>2. PICK q \in Int : MatchAt(1, q)
  <2>1. MatchAt(1, IF pat # <<>> /\ pat[1].op = "^" THEN 2 ELSE 1)
    BY DEF Ask
  <2> QED BY <2>1
<1>3. 1 <= End'
  BY <1>1 DEF End
<1>4. Matching' /\ src' \in Nat \ {0} /\ p' \in Int
  BY <1>1, <1>2, <1>3, CalledSound
<1> QED BY <1>1, <1>4 DEF MatchInv

\* The loop of a task calls match again.
LEMMA PassSound ==
  ASSUME MatchInv, UNCHANGED input, NEW i \in Nat \ {0}, i <= End, NEW q \in Int, MatchAt(i, q)
  PROVE  /\ subject' = subject /\ pattern' = pattern /\ End' = End /\ src' = i
         /\ Matching' /\ src' \in Nat \ {0} /\ p' \in Int
<1>1. subject' = subject /\ pattern' = pattern /\ End' = End /\ src' = i
  BY DEF input, End, MatchAt
<1>2. subject' \in Seq(STRING) /\ i <= End'
  BY <1>1 DEF MatchInv
<1> QED BY <1>1, <1>2, CalledSound

LEMMA FindKeeps ==
  ASSUME MatchInv, FindTurn
  PROVE  MatchInv'
<1>1. task = "find" /\ Matching /\ text = <<>> /\ replacing = <<>> /\ iterating = <<>>
      /\ UNCHANGED <<input, text, replacing, iterating>> /\ subject \in Seq(STRING) /\ Len(pattern) \in Nat
  BY DEF FindTurn, MatchInv
<1>2. PICK e \in Nat : e = End /\ 1 <= e /\ src \in Nat \ {0}
  BY <1>1, Places, SubjectEnds
<1>3. CASE BeginGsub
  <2>1. task' = "gsub" /\ \E q \in Int : MatchAt(1, q)
    BY <1>3 DEF BeginGsub
  <2>2. Matching' /\ src' = 1 /\ p' \in Int /\ subject' = subject /\ pattern' = pattern
    BY <2>1, <1>1, <1>2, PassSound
  <2>3. text' = SubSeq(subject', 1, src' - 1)
    BY <2>2, <1>1, NothingCut
  <2> QED BY <2>1, <2>2, <2>3, <1>1 DEF MatchInv
<1>4. CASE way = "none" /\ src < End /\ Pass(src + 1)
  <2>1. task' = "find" /\ \E q \in Int : MatchAt(src + 1, q)
    BY <1>1, <1>4 DEF Pass
  <2>2. src + 1 \in Nat \ {0} /\ src + 1 <= End
    BY <1>2, <1>4
  <2>3. Matching' /\ src' \in Nat \ {0} /\ p' \in Int /\ subject' = subject /\ pattern' = pattern
    BY <2>1, <2>2, <1>1, PassSound
  <2> QED BY <2>1, <2>3, <1>1 DEF MatchInv
<1>5. CASE way = "error" /\ Over
  BY <1>1, <1>5 DEF Over, MatchInv, input
<1> QED BY <1>3, <1>4, <1>5 DEF FindTurn

\* A piece of the subject is copied behind what comes before it.
LEMMA PieceJoined ==
  ASSUME subject \in Seq(STRING), NEW i \in Nat \ {0}, NEW j \in Nat, i <= j, j <= End
  PROVE  SubSeq(subject, 1, i - 1) \o Piece(i, j) = SubSeq(subject, 1, j - 1)
<1>1. PICK b \in Nat : b = i - 1
  OBVIOUS
<1>2. PICK c \in Nat : c = j - 1
  OBVIOUS
<1>3. c <= Len(subject)
  BY <1>2, SubjectEnds
<1>4. CASE i < j
  <2>1. SubSeq(subject, 1, b) \o SubSeq(subject, i, c) = SubSeq(subject, 1, c)
    <3>1. 1 \in Nat /\ 1 <= 1 /\ 1 <= i /\ i = b + 1 /\ b <= c
      BY <1>1, <1>2, <1>4
    <3> QED BY <3>1, <1>3, CutJoined
  <2>2. Piece(i, j) = SubSeq(subject, i, c)
    BY <1>2, <1>4 DEF Piece
  <2> QED BY <2>1, <2>2, <1>1, <1>2
<1>5. CASE ~(i < j)
  <2>1. j = i /\ Piece(i, j) = <<>>
    BY <1>5 DEF Piece
  <2>2. SubSeq(subject, 1, b) \in Seq(STRING)
    BY <1>1, <1>2, <1>3, <2>1
  <2>3. SubSeq(subject, 1, b) \o <<>> = SubSeq(subject, 1, b)
    BY <2>2
  <2> QED BY <2>1, <2>3, <1>1
<1> QED BY <1>4, <1>5

LEMMA OnwardIn ==
  ASSUME Matching
  PROVE  Onward \in Nat \ {0} /\ src <= Onward /\ Onward <= End
<1>1. PICK e \in Nat : e = End
  BY Places
<1>2. src \in Nat \ {0} /\ s \in Nat /\ src <= s /\ s <= e
  BY <1>1, Places
<1> QED BY <1>1, <1>2 DEF Onward

LEMMA GsubKeeps ==
  ASSUME MatchInv, GsubTurn
  PROVE  MatchInv'
<1>1. task = "gsub" /\ Matching /\ text = SubSeq(subject, 1, src - 1) /\ iterating = <<>>
      /\ UNCHANGED <<input, iterating>> /\ subject \in Seq(STRING) /\ Len(pattern) \in Nat
  BY DEF GsubTurn, MatchInv
<1>2. Onward \in Nat \ {0} /\ src <= Onward /\ Onward <= End /\ src \in Nat \ {0} /\ 1 <= End /\ End \in Nat
  BY <1>1, OnwardIn, Places, SubjectEnds
<1>3. text \o Copied = SubSeq(subject, 1, Onward - 1)
  BY <1>1, <1>2, PieceJoined DEF Copied
<1>4. CASE Onward > src /\ Pass(Onward) /\ text' = text \o Copied
  <2>1. task' = "gsub" /\ \E q \in Int : MatchAt(Onward, q)
    BY <1>1, <1>4 DEF Pass
  <2>2. Matching' /\ src' = Onward /\ p' \in Int /\ subject' = subject /\ pattern' = pattern
    BY <2>1, <1>1, <1>2, PassSound
  <2>3. text' = SubSeq(subject', 1, src' - 1)
    BY <1>3, <1>4, <2>2
  <2> QED BY <2>1, <2>2, <2>3, <1>1, <1>2 DEF MatchInv
<1>5. CASE task' = "gmatch" /\ MatchAt(1, 1) /\ text' = text \o Copied \o Piece(Onward, End)
  <2>1. Matching' /\ src' = 1 /\ p' \in Int /\ subject' = subject /\ pattern' = pattern
    BY <1>1, <1>2, <1>5, PassSound
  <2>2. text' = SubSeq(subject, 1, End - 1)
    <3>1. SubSeq(subject, 1, Onward - 1) \o Piece(Onward, End) = SubSeq(subject, 1, End - 1)
      <4>1. subject \in Seq(STRING) /\ Onward \in Nat \ {0} /\ End \in Nat /\ Onward <= End /\ End <= End
        BY <1>1, <1>2
      <4> QED BY <4>1, PieceJoined
    <3> QED BY Zenon, <3>1, <1>3, <1>5
  <2>3. text' = subject'
    <3>1. End - 1 = Len(subject)
      BY <1>1, SubjectEnds
    <3>2. SubSeq(subject, 1, Len(subject)) = subject
      BY <1>1, NothingCut
    <3> QED BY Zenon, <2>1, <2>2, <3>1, <3>2
  <2> QED BY <2>1, <2>3, <1>1, <1>5 DEF MatchInv
<1> QED BY <1>4, <1>5 DEF GsubTurn

LEMMA GmatchKeeps ==
  ASSUME MatchInv, GmatchTurn
  PROVE  MatchInv'
<1>1. task = "gmatch" /\ Matching /\ text = subject /\ way \in {"found", "none"}
      /\ UNCHANGED <<input, text>> /\ subject \in Seq(STRING) /\ Len(pattern) \in Nat
  BY DEF GmatchTurn, MatchInv
<1>2. PICK e \in Nat : e = End
  BY <1>1, Places
<1>3. src \in Nat \ {0} /\ s \in Nat /\ src <= s /\ s <= e
  BY <1>1, <1>2, Places
<1>4. PICK next : next = (IF way = "found" THEN PastMatch ELSE src + 1)
                  /\ IF next > End THEN Over ELSE Pass(next)
  BY DEF GmatchTurn
<1>5. next \in Nat \ {0}
  BY <1>3, <1>4 DEF PastMatch
<1>6. CASE next > End /\ Over
  BY <1>1, <1>3, <1>6 DEF Over, MatchInv, input
<1>7. CASE ~(next > End) /\ Pass(next)
  <2>1. task' = "gmatch" /\ \E q \in Int : MatchAt(next, q)
    BY <1>1, <1>7 DEF Pass
  <2>2. next <= End
    BY <1>2, <1>5, <1>7
  <2>3. Matching' /\ src' \in Nat \ {0} /\ p' \in Int /\ subject' = subject /\ pattern' = pattern
    BY <2>1, <2>2, <1>1, <1>5, PassSound
  <2> QED BY <2>1, <2>3, <1>1 DEF MatchInv
<1> QED BY <1>4, <1>6, <1>7

LEMMA MatchStep ==
  ASSUME MatchInv, [MatchNext]_matchVars
  PROVE  MatchInv'
<1>1. CASE UNCHANGED matchVars
  BY <1>1 DEF matchVars, input, outcome, MatchInv, Matching, Sound, Leaves, End, CapturesFrom, Waits, Lens
<1>2. CASE MatchNext
  BY <1>2, MatcherKeeps, AskKeeps, FindKeeps, GsubKeeps, GmatchKeeps DEF MatchNext
<1> QED BY <1>1, <1>2

\* Of a pattern that is not anchored: where the matcher is follows from where it was called,
\* and where the loop is, and what it has met, from where it began.
PassesInv ==
  ~Anchored =>
    /\ task \in {"gsub", "gmatch"} => Reaches(subject, pattern, src, <<way, s, p, cap, choices>>)
    /\ task = "gsub" => Turns(subject, pattern, src, replacing)
    /\ task = "gmatch" => Ends(subject, pattern, replacing) /\ Turns(subject, pattern, src, iterating)
    /\ task = "over" /\ way # "error" => Ends(subject, pattern, replacing) /\ Ends(subject, pattern, iterating)

LEMMA MatcherPasses ==
  ASSUME MatchInv, PassesInv, Part \/ PatternEnds \/ Back
  PROVE  PassesInv'
<1>1. UNCHANGED <<subject, pattern, task, src, text, replacing, iterating>> /\ way \in {"on", "back"}
  BY DEF Part, PatternEnds, Back, input, outcome
<1>2. task \in {"find", "gsub", "gmatch"} /\ p \in Int /\ Len(pattern) \in Nat
  BY <1>1 DEF MatchInv
<1>3. ASSUME ~Anchored, task \in {"gsub", "gmatch"}
      PROVE  Reaches(subject, pattern, src, <<way', s', p', cap', choices'>>)
  <2>1. PICK y : y = <<way, s, p, cap, choices>>
    OBVIOUS
  <2>2. GoesOn(y)
    BY <2>1, <1>1 DEF GoesOn
  <2>3. Reaches(subject, pattern, src, y)
    BY Zenon, <2>1, <1>3 DEF PassesInv
  <2>4. Reaches(subject, pattern, src, Moved(subject, pattern, y))
    BY <2>2, <2>3, ReachesNext
  <2>5. <<way', s', p', cap', choices'>> = Moved(subject, pattern, y)
    BY Zenon, <2>1, <1>2, SameMove DEF Becomes
  <2> QED BY Zenon, <2>4, <2>5
<1>4. Anchored' <=> Anchored
  BY <1>1 DEF Anchored
<1> QED BY Zenon, <1>1, <1>2, <1>3, <1>4 DEF PassesInv

\* match is called for the loop, with the whole pattern.
LEMMA CalledReaches ==
  ASSUME UNCHANGED input, NEW i, MatchAt(i, 1)
  PROVE  /\ subject' = subject /\ pattern' = pattern /\ src' = i /\ (Anchored' <=> Anchored)
         /\ Reaches(subject', pattern', src', <<way', s', p', cap', choices'>>)
<1>1. subject' = subject /\ pattern' = pattern /\ (Anchored' <=> Anchored)
  BY DEF input, Anchored
<1>2. src' = i /\ way' = "on" /\ s' = i /\ p' = 1 /\ cap' = <<>> /\ choices' = <<>>
  BY DEF MatchAt
<1>3. Reaches(subject', pattern', i, <<"on", i, 1, <<>>, <<>>>>)
  BY Zenon, ReachesStart
<1> QED BY Zenon, <1>1, <1>2, <1>3

LEMMA FindPasses ==
  ASSUME MatchInv, PassesInv, FindTurn
  PROVE  PassesInv'
<1>1. task = "find" /\ replacing = <<>> /\ UNCHANGED <<input, replacing, iterating>>
  BY DEF FindTurn, MatchInv
<1>2. Anchored' <=> Anchored
  BY <1>1 DEF input, Anchored
<1>3. CASE BeginGsub
  <2>1. task' = "gsub" /\ (~Anchored => MatchAt(1, 1))
    BY <1>3 DEF BeginGsub
  <2>2. Turns(subject', pattern', 1, replacing')
    BY Zenon, <1>1, TurnsStart
  <2>3. ASSUME ~Anchored
        PROVE  src' = 1 /\ Reaches(subject', pattern', src', <<way', s', p', cap', choices'>>)
    BY Zenon, <1>1, <2>1, <2>3, CalledReaches
  <2> QED BY <1>2, <2>1, <2>2, <2>3 DEF PassesInv
<1>4. CASE Pass(src + 1)
  BY <1>1, <1>4 DEF Pass, PassesInv
<1>5. CASE way = "error" /\ Over
  BY <1>5 DEF Over, PassesInv
<1> QED BY <1>3, <1>4, <1>5 DEF FindTurn

\* A turn of a loop, in the terms of both.
LEMMA TurnMade ==
  ASSUME MatchInv, PassesInv, ~Anchored, task \in {"gsub", "gmatch"}, way \in {"found", "none"},
         NEW list, Turns(subject, pattern, src, list)
  PROVE  Turns(subject, pattern, Following(src, way, s), Noted(list, src, way, s))
<1>1. PICK y : y = <<way, s, p, cap, choices>> /\ y[1] = way /\ y[2] = s
  <2>1. <<way, s, p, cap, choices>>[1] = way /\ <<way, s, p, cap, choices>>[2] = s
    OBVIOUS
  <2> QED BY Zenon, <2>1
<1>2. Reaches(subject, pattern, src, y)
  BY Zenon, <1>1 DEF PassesInv
<1>3. Results(subject, pattern, src, way, s)
  BY Zenon, <1>1, <1>2 DEF Results
<1>4. Matching /\ subject \in Seq(STRING)
  BY DEF MatchInv
<1>5. src <= Len(subject) + 1
  <2>1. src <= s /\ s <= End /\ src \in Nat /\ s \in Nat /\ End \in Nat
    BY <1>4, Places
  <2>2. End = Len(subject) + 1
    BY DEF End
  <2> QED BY <2>1, <2>2
<1> QED BY <1>3, <1>5, TurnsNext

LEMMA GsubPasses ==
  ASSUME MatchInv, PassesInv, GsubTurn
  PROVE  PassesInv'
<1>1. task = "gsub" /\ way \in {"found", "none"} /\ Matching /\ iterating = <<>>
      /\ UNCHANGED <<input, iterating>> /\ subject \in Seq(STRING)
  BY DEF GsubTurn, MatchInv
<1>2. PICK e \in Nat : e = End /\ End = Len(subject) + 1
  BY <1>1, SubjectEnds
<1>3. src \in Nat \ {0} /\ s \in Nat /\ src <= s /\ s <= e
  BY <1>1, <1>2, Places
<1>4. replacing' = Noted(replacing, src, way, s)
  BY DEF GsubTurn, Noted
<1>5. Anchored' <=> Anchored
  BY <1>1 DEF input, Anchored
<1>6. CASE Anchored
  BY <1>5, <1>6 DEF PassesInv
<1>7. CASE ~Anchored
  <2>1. Turns(subject, pattern, Following(src, way, s), replacing')
    BY <1>1, <1>4, <1>7, TurnMade DEF PassesInv
  <2>2. CASE Onward > src /\ Pass(Onward)
    <3>1. task' = "gsub" /\ MatchAt(Onward, 1)
      BY <1>1, <1>7, <2>2 DEF Pass
    <3>2. Following(src, way, s) = Onward
      BY <1>2, <1>3, <2>2 DEF Onward, Following
    <3>3. subject' = subject /\ pattern' = pattern /\ src' = Onward
          /\ Reaches(subject', pattern', src', <<way', s', p', cap', choices'>>)
      BY <3>1, <1>1, CalledReaches
    <3> QED BY Zenon, <2>1, <3>1, <3>2, <3>3 DEF PassesInv
  <2>3. CASE Onward = src /\ task' = "gmatch" /\ MatchAt(1, 1)
    <3>1. Following(src, way, s) > Len(subject) + 1 /\ Following(src, way, s) \in Int
      BY <1>2, <1>3, <2>3 DEF Onward, Following
    <3>2. Ends(subject, pattern, replacing')
      BY Zenon, <2>1, <3>1 DEF Ends
    <3>3. subject' = subject /\ pattern' = pattern /\ src' = 1
          /\ Reaches(subject', pattern', src', <<way', s', p', cap', choices'>>)
      BY <2>3, <1>1, CalledReaches
    <3>4. Turns(subject', pattern', src', iterating')
      BY Zenon, <1>1, <3>3, TurnsStart
    <3> QED BY Zenon, <2>3, <3>2, <3>3, <3>4 DEF PassesInv
  <2> QED BY <1>7, <2>2, <2>3 DEF GsubTurn
<1> QED BY <1>6, <1>7

LEMMA GmatchPasses ==
  ASSUME MatchInv, PassesInv, GmatchTurn
  PROVE  PassesInv'
<1>1. task = "gmatch" /\ way \in {"found", "none"} /\ Matching
      /\ UNCHANGED <<input, replacing>> /\ subject \in Seq(STRING)
  BY DEF GmatchTurn, MatchInv
<1>2. PICK e \in Nat : e = End /\ End = Len(subject) + 1
  BY <1>1, SubjectEnds
<1>3. src \in Nat \ {0} /\ s \in Nat /\ src <= s /\ s <= e
  BY <1>1, <1>2, Places
<1>4. iterating' = Noted(iterating, src, way, s)
  BY DEF GmatchTurn, Noted
<1>5. Anchored' <=> Anchored
  BY <1>1 DEF input, Anchored
<1>6. CASE Anchored
  BY <1>5, <1>6 DEF PassesInv
<1>7. CASE ~Anchored
  <2>1. Turns(subject, pattern, Following(src, way, s), iterating') /\ Ends(subject, pattern, replacing)
    BY <1>1, <1>4, <1>7, TurnMade DEF PassesInv
  <2>2. PICK next : next = (IF way = "found" THEN PastMatch ELSE src + 1)
                    /\ IF next > End THEN Over ELSE Pass(next)
    BY DEF GmatchTurn
  <2>3. next = Following(src, way, s) /\ next \in Int
    BY <1>1, <1>3, <2>2 DEF PastMatch, Following
  <2>4. CASE next > End /\ Over
    <3>1. task' = "over" /\ subject' = subject /\ pattern' = pattern
      BY <1>1, <2>4 DEF Over, input
    <3>2. Ends(subject, pattern, iterating')
      BY Zenon, <2>1, <2>3, <2>4, <1>2 DEF Ends
    <3> QED BY <2>1, <3>1, <3>2, <1>1 DEF PassesInv
  <2>5. CASE ~(next > End) /\ Pass(next)
    <3>1. task' = "gmatch" /\ MatchAt(next, 1)
      BY <1>1, <2>5 DEF Pass
    <3>2. subject' = subject /\ pattern' = pattern /\ src' = next
          /\ Reaches(subject', pattern', src', <<way', s', p', cap', choices'>>)
      BY <3>1, <1>1, CalledReaches
    <3> QED BY Zenon, <2>1, <2>3, <3>1, <3>2, <1>1 DEF PassesInv
  <2> QED BY <2>2, <2>4, <2>5
<1> QED BY <1>6, <1>7

LEMMA PassesStep ==
  ASSUME MatchInv, PassesInv, [MatchNext]_matchVars
  PROVE  PassesInv'
<1>1. CASE UNCHANGED matchVars
  BY <1>1 DEF matchVars, input, outcome, PassesInv, Anchored
<1>2. ASSUME task = "idle", NEW sub \in Subjects, NEW pat \in Patterns, Ask(sub, pat)
      PROVE  PassesInv'
  BY <1>2 DEF Ask, PassesInv
<1> QED BY <1>1, <1>2, MatcherPasses, FindPasses, GsubPasses, GmatchPasses DEF MatchNext

\* The matcher stays inside its subject, behind the place where match was called, and so do
\* the captures it holds (match and start_capture in lstrlib.c: s and ms->capture[l].init), however
\* far max_expand and min_expand have gone and whatever is undone when an activation fails.
MatchInside ==
  task \in {"find", "gsub", "gmatch"} =>
    s \in src .. End /\ \A l \in 1 .. Len(cap) : cap[l].init \in src .. End
THEOREM MatcherInside == MatchSpec => []MatchInside
<1>1. MatchInv => MatchInside
  <2> SUFFICES ASSUME MatchInv, task \in {"find", "gsub", "gmatch"}
               PROVE  s \in src .. End /\ \A l \in 1 .. Len(cap) : cap[l].init \in src .. End
    BY DEF MatchInside
  <2>1. Matching
    BY DEF MatchInv
  <2>2. s \in src .. End /\ src \in Nat /\ End \in Nat /\ cap \in Seq(CapturesFrom(src, End))
    BY <2>1 DEF Matching, Sound
  <2> QED BY <2>2, Begins
<1> QED BY <1>1, MatchInitInv, MatchStep, PTL DEF MatchSpec

\* gsub with a replacement that changes nothing gives back its subject (str_gsub), and what
\* it meets is what gmatch meets (gmatch_aux): the two loops of lstrlib.c over one matcher
\* never differ, however it goes back and whatever the empty matches are.
THEOREM SameMatches == MatchSpec => []GsubAsGmatch
<1>1. MatchInit => MatchInv /\ PassesInv
  <2> SUFFICES ASSUME MatchInit PROVE MatchInv /\ PassesInv
    OBVIOUS
  <2>1. task = "idle"
    BY DEF MatchInit
  <2> QED BY <2>1, MatchInitInv DEF PassesInv
<1>2. MatchInv /\ PassesInv /\ [MatchNext]_matchVars => MatchInv' /\ PassesInv'
  BY MatchStep, PassesStep
<1>3. MatchInv /\ PassesInv => GsubAsGmatch
  <2> SUFFICES ASSUME MatchInv, PassesInv PROVE GsubAsGmatch
    OBVIOUS
  <2>1. Len(subject) \in Nat
    BY SubjectEnds DEF MatchInv
  <2>2. ASSUME task = "over", way # "error", ~Anchored PROVE iterating = replacing
    <3>1. Ends(subject, pattern, replacing) /\ Ends(subject, pattern, iterating)
      BY <2>2 DEF PassesInv
    <3> QED BY <2>1, <3>1, OneList
  <2> QED BY <2>2 DEF GsubAsGmatch, MatchInv
<1> QED BY <1>1, <1>2, <1>3, PTL DEF MatchSpec

-----------------------------------------------------------------------------
(* Patterns: how deep a part is in captures, and where a capture is closed.  *)

CaptureOps      == {"(", "()"}
Depth(pat, i)   == Count(pat, i, "(") - Count(pat, i, ")")
BeginsOf(pat)   == {i \in DOMAIN pat : pat[i].op \in CaptureOps}
Rank(pat, i)    == Cardinality({j \in BeginsOf(pat) : j <= i})
Nth(pat, l)     == CHOOSE i \in BeginsOf(pat) : Rank(pat, i) = l
Closes(pat, i, j) ==
  /\ Count(pat, j, ")") - Count(pat, i, ")") = Count(pat, j, "(") - Count(pat, i - 1, "(")
  /\ \A k \in i .. j - 1 : Count(pat, k, ")") - Count(pat, i, ")")
                            < Count(pat, k, "(") - Count(pat, i - 1, "(")
CloseOf(pat, i) == CHOOSE j \in i .. Len(pat) : Closes(pat, i, j)

\* What is asked of a pattern.
Usable(pat) ==
  /\ Len(pat) \in Nat /\ DOMAIN pat = 1 .. Len(pat) /\ \A i \in 1 .. Len(pat) : Shape(pat[i])
  /\ WellFormed(pat)

Within(S, lo, n) == {i \in lo .. n : i \in S}

\* A set of numbers, counted up to the next one.
LEMMA CountOn ==
  ASSUME NEW lo \in Int, NEW n \in Int, NEW m, m = n + 1, lo <= m, NEW S
  PROVE  /\ Cardinality(Within(S, lo, n)) \in Nat
         /\ Cardinality(Within(S, lo, m))
              = Cardinality(Within(S, lo, n)) + (IF m \in S THEN 1 ELSE 0)
<1>1. PICK A : A = Within(S, lo, n)
  OBVIOUS
<1>8. A = {i \in lo .. n : i \in S}
  BY <1>1 DEF Within
<1>2. IsFiniteSet(A) /\ Cardinality(A) \in Nat
  <2>1. IsFiniteSet(lo .. n) /\ A \in SUBSET (lo .. n)
    BY <1>8, FS_Interval
  <2>2. IsFiniteSet(A)
    BY ONLY <2>1, FS_Subset
  <2> QED BY <2>2, FS_CardinalityType
<1>3. PICK B : B = Within(S, lo, m)
  OBVIOUS
<1>4. m \notin A
  BY <1>8
<1>5. B = IF m \in S THEN A \cup {m} ELSE A
  BY <1>8, <1>3 DEF Within
<1>6. Cardinality(A \cup {m}) = Cardinality(A) + 1
  BY ONLY <1>2, <1>4, FS_AddElement
<1>7. Cardinality(B) = Cardinality(A) + (IF m \in S THEN 1 ELSE 0)
  BY ONLY <1>2, <1>5, <1>6
<1> QED BY Zenon, <1>1, <1>2, <1>3, <1>7

LEMMA NoneCounted ==
  ASSUME NEW lo \in Int, NEW n \in Int, lo > n, NEW S
  PROVE  Cardinality(Within(S, lo, n)) = 0
<1>1. Within(S, lo, n) = {}
  BY DEF Within
<1> QED BY <1>1, FS_EmptySet

LEMMA CountNext ==
  ASSUME NEW pat, NEW op, NEW n \in Nat
  PROVE  /\ Count(pat, 0, op) = 0 /\ Count(pat, n, op) \in Nat
         /\ Count(pat, n + 1, op) = Count(pat, n, op) + (IF pat[n + 1].op = op THEN 1 ELSE 0)
<1>1. PICK S : S = {i \in Int : pat[i].op = op}
  OBVIOUS
<1>2. ASSUME NEW k \in Int PROVE Count(pat, k, op) = Cardinality(Within(S, 1, k))
  <2>1. {i \in 1 .. k : pat[i].op = op} = Within(S, 1, k)
    BY <1>1 DEF Within
  <2> QED BY <2>1 DEF Count
<1>3. Count(pat, 0, op) = 0
  <2>1. 1 \in Int /\ 0 \in Int /\ 1 > 0
    OBVIOUS
  <2>2. Cardinality(Within(S, 1, 0)) = 0
    BY ONLY <2>1, NoneCounted
  <2> QED BY <2>1, <2>2, <1>2
<1>4. PICK m \in Int : /\ m = n + 1 /\ 1 <= m /\ Cardinality(Within(S, 1, n)) \in Nat
                     /\ Cardinality(Within(S, 1, m)) = Cardinality(Within(S, 1, n)) + (IF m \in S THEN 1 ELSE 0)
  <2>1. PICK m \in Int : m = n + 1 /\ 1 <= m
    OBVIOUS
  <2>2. 1 \in Int /\ n \in Int
    OBVIOUS
  <2>3. /\ Cardinality(Within(S, 1, n)) \in Nat
        /\ Cardinality(Within(S, 1, m)) = Cardinality(Within(S, 1, n)) + (IF m \in S THEN 1 ELSE 0)
    BY ONLY <2>1, <2>2, m \in Int, CountOn
  <2> QED BY <2>1, <2>3
<1>5. n + 1 \in S <=> pat[n + 1].op = op
  BY <1>1
<1>6. n \in Int /\ n + 1 \in Int
  OBVIOUS
<1> QED BY <1>2, <1>3, <1>4, <1>5, <1>6

LEMMA RankNext ==
  ASSUME NEW pat, Usable(pat), NEW n \in Nat
  PROVE  /\ Rank(pat, 0) = 0 /\ Rank(pat, n) \in Nat
         /\ n + 1 <= Len(pat) => Rank(pat, n + 1) = Rank(pat, n) + (IF pat[n + 1].op \in CaptureOps THEN 1 ELSE 0)
         /\ Cardinality(BeginsOf(pat)) = Rank(pat, Len(pat))
<1>1. PICK S : S = BeginsOf(pat)
  OBVIOUS
<1>2. PICK m \in Nat : m = Len(pat) /\ DOMAIN pat = 1 .. m
  BY DEF Usable
<1>3. ASSUME NEW k \in Int PROVE Rank(pat, k) = Cardinality(Within(S, 1, k))
  <2>1. {j \in S : j <= k} = Within(S, 1, k)
    BY <1>1, <1>2 DEF BeginsOf, Within
  <2> QED BY <2>1, <1>1 DEF Rank
<1>4. Rank(pat, 0) = 0
  <2>1. 1 \in Int /\ 0 \in Int /\ 1 > 0
    OBVIOUS
  <2>2. Cardinality(Within(S, 1, 0)) = 0
    BY ONLY <2>1, NoneCounted
  <2> QED BY <2>1, <2>2, <1>3
<1>5. PICK o \in Int : /\ o = n + 1 /\ 1 <= o /\ Cardinality(Within(S, 1, n)) \in Nat
                     /\ Cardinality(Within(S, 1, o)) = Cardinality(Within(S, 1, n)) + (IF o \in S THEN 1 ELSE 0)
  <2>1. PICK o \in Int : o = n + 1 /\ 1 <= o
    OBVIOUS
  <2>2. 1 \in Int /\ n \in Int
    OBVIOUS
  <2>3. /\ Cardinality(Within(S, 1, n)) \in Nat
        /\ Cardinality(Within(S, 1, o)) = Cardinality(Within(S, 1, n)) + (IF o \in S THEN 1 ELSE 0)
    BY ONLY <2>1, <2>2, o \in Int, CountOn
  <2> QED BY <2>1, <2>3
<1>6. n + 1 <= m => (n + 1 \in S <=> pat[n + 1].op \in CaptureOps)
  BY <1>1, <1>2 DEF BeginsOf
<1>7. n \in Int /\ n + 1 \in Int
  OBVIOUS
<1>8. {j \in S : j <= m} = S
  BY <1>1, <1>2 DEF BeginsOf
<1>9. Cardinality(S) = Rank(pat, m)
  BY <1>1, <1>8 DEF Rank
<1> QED BY <1>1, <1>2, <1>3, <1>4, <1>5, <1>6, <1>7, <1>9

LEMMA DepthNext ==
  ASSUME NEW pat, Usable(pat)
  PROVE  /\ Depth(pat, 0) = 0 /\ Depth(pat, Len(pat)) = 0
         /\ \A i \in 0 .. Len(pat) : Depth(pat, i) \in Nat
         /\ \A i \in 1 .. Len(pat) :
              Depth(pat, i) = Depth(pat, i - 1) + (IF pat[i].op = "(" THEN 1 ELSE IF pat[i].op = ")" THEN -1 ELSE 0)
<1>1. PICK m \in Nat : m = Len(pat)
  BY DEF Usable
<1>2. Count(pat, 0, "(") = 0 /\ Count(pat, 0, ")") = 0
  BY CountNext
<1>3. ASSUME NEW i \in 1 .. m
      PROVE  Depth(pat, i) = Depth(pat, i - 1) + (IF pat[i].op = "(" THEN 1 ELSE IF pat[i].op = ")" THEN -1 ELSE 0)
             /\ Depth(pat, i) \in Nat
  <2>1. PICK k \in Nat : i = k + 1 /\ k = i - 1
    <3>1. i - 1 \in Nat /\ i = (i - 1) + 1
      OBVIOUS
    <3> QED BY <3>1
  <2>2. /\ Count(pat, k, "(") \in Nat /\ Count(pat, k, ")") \in Nat
        /\ Count(pat, k + 1, "(") = Count(pat, k, "(") + (IF pat[k + 1].op = "(" THEN 1 ELSE 0)
        /\ Count(pat, k + 1, ")") = Count(pat, k, ")") + (IF pat[k + 1].op = ")" THEN 1 ELSE 0)
    BY CountNext
  <2>3. Count(pat, i, ")") <= Count(pat, i, "(")
    BY <1>1 DEF Usable, WellFormed
  <2> QED BY <2>1, <2>2, <2>3 DEF Depth
<1>4. Depth(pat, 0) = 0
  BY <1>2 DEF Depth
<1>5. Depth(pat, m) = 0
  <2>1. Count(pat, m, "(") \in Nat /\ Count(pat, m, ")") \in Nat /\ Count(pat, m, "(") = Count(pat, m, ")")
    BY <1>1, CountNext DEF Usable, WellFormed
  <2> QED BY <2>1 DEF Depth
<1> QED BY <1>1, <1>3, <1>4, <1>5

\* A capture is closed where it is for the first time no deeper than it has begun.
LEMMA ClosesWhere ==
  ASSUME NEW pat, Usable(pat), NEW i \in 1 .. Len(pat), pat[i].op = "(", NEW j \in i .. Len(pat)
  PROVE  Closes(pat, i, j) <=> Depth(pat, j) = Depth(pat, i - 1) /\ \A k \in i .. j - 1 : Depth(pat, k) > Depth(pat, i - 1)
<1>1. PICK m \in Nat : m = Len(pat) /\ i \in 1 .. m /\ j \in i .. m
  BY DEF Usable
<1>2. ASSUME NEW k \in 0 .. m PROVE Count(pat, k, "(") \in Nat /\ Count(pat, k, ")") \in Nat
  <2>1. k \in Nat
    OBVIOUS
  <2> QED BY Zenon, <2>1, CountNext
<1>3. Count(pat, i, ")") = Count(pat, i - 1, ")")
  <2>1. PICK k \in Nat : i = k + 1 /\ k = i - 1
    <3>1. i - 1 \in Nat /\ i = (i - 1) + 1
      BY <1>1
    <3> QED BY <3>1
  <2>2. Count(pat, k + 1, ")") = Count(pat, k, ")") + (IF pat[k + 1].op = ")" THEN 1 ELSE 0) /\ Count(pat, k, ")") \in Nat
    BY CountNext
  <2> QED BY <2>1, <2>2
<1>4. i - 1 \in 0 .. m /\ j \in 0 .. m /\ i \in 0 .. m
  BY <1>1
<1>5. ASSUME NEW k \in 0 .. m
      PROVE  /\ Count(pat, k, ")") - Count(pat, i, ")") = Count(pat, k, "(") - Count(pat, i - 1, "(")
                  <=> Depth(pat, k) = Depth(pat, i - 1)
             /\ Count(pat, k, ")") - Count(pat, i, ")") < Count(pat, k, "(") - Count(pat, i - 1, "(")
                  <=> Depth(pat, k) > Depth(pat, i - 1)
  <2>1. PICK a \in Nat, a1 \in Nat, b \in Nat, b1 \in Nat :
          a = Count(pat, k, "(") /\ a1 = Count(pat, k, ")") /\ b = Count(pat, i - 1, "(") /\ b1 = Count(pat, i - 1, ")")
    BY <1>2, <1>4
  <2>2. Depth(pat, k) = a - a1 /\ Depth(pat, i - 1) = b - b1
    BY <2>1 DEF Depth
  <2>3. PICK x \in Nat : x = Count(pat, i, ")") /\ x = b1
    BY <2>1, <1>2, <1>3, <1>4
  <2>4. /\ (a1 - x = a - b <=> a - a1 = b - b1)
        /\ a1 - x < a - b <=> a - a1 > b - b1
    BY ONLY <2>3, a \in Nat, a1 \in Nat, b \in Nat, b1 \in Nat
  <2> QED BY Zenon, <2>1, <2>2, <2>3, <2>4
<1>6. \A k \in i .. j - 1 : k \in 0 .. m
  BY <1>1
<1> QED BY <1>4, <1>5, <1>6 DEF Closes

LEMMA ClosedWhere ==
  ASSUME NEW pat, Usable(pat), NEW i \in 1 .. Len(pat), pat[i].op = "(", NEW j \in i .. Len(pat),
         Depth(pat, j) = Depth(pat, i - 1), \A k \in i .. j - 1 : Depth(pat, k) > Depth(pat, i - 1)
  PROVE  CloseOf(pat, i) = j
<1>1. PICK m \in Nat : m = Len(pat) /\ i \in 1 .. m /\ j \in i .. m
  BY DEF Usable
<1>2. Closes(pat, i, j)
  BY ClosesWhere
<1>3. PICK c : c = CloseOf(pat, i)
  OBVIOUS
<1>4. c \in i .. Len(pat) /\ Closes(pat, i, c)
  BY Zenon, <1>2, <1>3 DEF CloseOf
<1>5. Depth(pat, c) = Depth(pat, i - 1) /\ \A k \in i .. c - 1 : Depth(pat, k) > Depth(pat, i - 1)
  BY <1>4, ClosesWhere
<1>6. Depth(pat, i - 1) \in Nat
  <2>1. i - 1 \in 0 .. m
    BY <1>1
  <2> QED BY <2>1, <1>1, DepthNext
<1>7. ~(j < c)
  <2>1. ASSUME j < c PROVE FALSE
    <3>1. j \in i .. c - 1
      BY <2>1, <1>1, <1>4
    <3> QED BY <3>1, <1>5, <1>6
  <2> QED BY <2>1
<1>8. ~(c < j)
  <2>1. ASSUME c < j PROVE FALSE
    <3>1. c \in i .. j - 1
      BY <2>1, <1>1, <1>4
    <3> QED BY <3>1, <1>5, <1>6
  <2> QED BY <2>1
<1> QED BY <1>1, <1>3, <1>4, <1>7, <1>8

LEMMA IsClosed ==
  ASSUME NEW pat, Usable(pat), NEW i \in 1 .. Len(pat), pat[i].op = "("
  PROVE  /\ CloseOf(pat, i) \in i + 1 .. Len(pat) /\ pat[CloseOf(pat, i)].op = ")"
         /\ Depth(pat, CloseOf(pat, i)) = Depth(pat, i - 1)
         /\ \A k \in i .. CloseOf(pat, i) - 1 : Depth(pat, k) > Depth(pat, i - 1)
<1>1. PICK m \in Nat : m = Len(pat) /\ i \in 1 .. m
  BY DEF Usable
<1>2. PICK d \in Nat : d = Depth(pat, i - 1)
  <2>1. i - 1 \in 0 .. m
    BY <1>1
  <2> QED BY <2>1, <1>1, DepthNext
<1>3. PICK J : J = {j \in i .. m : Depth(pat, j) <= d}
  OBVIOUS
<1>4. m \in J
  <2>1. Depth(pat, m) = 0
    BY <1>1, DepthNext
  <2> QED BY <2>1, <1>1, <1>2, <1>3
<1>5. PICK c \in J : \A k \in J : c <= k
  <2>1. J \subseteq Nat /\ J # {}
    BY <1>1, <1>3, <1>4
  <2> QED BY ONLY <2>1, Least
<1>6. c \in i .. m /\ Depth(pat, c) <= d
  BY <1>3
<1>7. ASSUME NEW k \in i .. c - 1 PROVE Depth(pat, k) > d
  <2>1. k \in i .. m /\ k \notin J /\ k \in 0 .. m
    BY <1>1, <1>5, <1>6
  <2>2. Depth(pat, k) \in Nat
    BY <2>1, <1>1, DepthNext
  <2> QED BY <2>1, <2>2, <1>3
<1>8. Depth(pat, i) = d + 1
  BY <1>1, <1>2, DepthNext
<1>9. c # i
  BY <1>6, <1>8
<1>10. /\ Depth(pat, c) = Depth(pat, c - 1) + (IF pat[c].op = "(" THEN 1 ELSE IF pat[c].op = ")" THEN -1 ELSE 0)
       /\ Depth(pat, c - 1) \in Nat /\ Depth(pat, c - 1) > d
  <2>1. c \in 1 .. m /\ c - 1 \in 0 .. m /\ c - 1 \in i .. c - 1
    BY <1>1, <1>6, <1>9
  <2> QED BY <2>1, <1>1, <1>7, DepthNext
<1>11. pat[c].op = ")" /\ Depth(pat, c) = d
  BY <1>6, <1>10
<1>12. CloseOf(pat, i) = c
  <2>1. c \in i .. Len(pat)
    BY <1>1, <1>6
  <2> QED BY <2>1, <1>2, <1>7, <1>11, ClosedWhere
<1>13. c \in i + 1 .. m
  BY <1>1, <1>6, <1>9
<1> QED BY <1>1, <1>2, <1>7, <1>11, <1>12, <1>13

\* Every end of a capture closes one capture, and all that have begun inside it are closed
\* before.
LEMMA ClosesOne ==
  ASSUME NEW pat, Usable(pat), NEW c \in 1 .. Len(pat), pat[c].op = ")"
  PROVE  \E b \in 1 .. c - 1 :
           /\ pat[b].op = "(" /\ CloseOf(pat, b) = c
           /\ \A i \in 1 .. Len(pat) : pat[i].op = "(" /\ i # b => CloseOf(pat, i) # c
           /\ \A i \in b + 1 .. c - 1 : pat[i].op = "(" => CloseOf(pat, i) < c
<1>1. PICK m \in Nat : m = Len(pat) /\ c \in 1 .. m
  BY DEF Usable
<1>2. \A i \in 0 .. m : Depth(pat, i) \in Nat
  BY <1>1, DepthNext
<1>3. Depth(pat, c - 1) = Depth(pat, c) + 1 /\ c - 1 \in 0 .. m /\ c \in 0 .. m
  <2>1. c - 1 \in 0 .. m /\ c \in 0 .. m
    BY <1>1
  <2>2. Depth(pat, c) = Depth(pat, c - 1) - 1
    BY <1>1, <2>1, <1>2, DepthNext
  <2> QED BY <2>1, <2>2, <1>2
<1>4. PICK d \in Nat : d = Depth(pat, c)
  BY <1>2, <1>3
<1>5. PICK K : K = {k \in 1 .. c - 1 : Depth(pat, k - 1) <= d}
  OBVIOUS
<1>6. 1 \in K
  <2>1. Depth(pat, 0) = 0
    BY DepthNext
  <2>2. c # 1
    BY <2>1, <1>3, <1>4
  <2> QED BY <2>1, <2>2, <1>1, <1>4, <1>5
<1>7. PICK b \in K : \A k \in K : b >= k
  <2>1. K \subseteq 1 .. c - 1
    BY <1>5
  <2>2. K \subseteq Nat /\ K # {} /\ m \in Nat /\ \A k \in K : k <= m
    <3>1. \A k \in 1 .. c - 1 : k \in Nat /\ k <= m
      BY <1>1
    <3> QED BY <2>1, <3>1, <1>6
  <2> QED BY ONLY <2>2, Greatest
<1>8. b \in 1 .. c - 1 /\ Depth(pat, b - 1) <= d /\ b \in 1 .. m /\ b - 1 \in 0 .. m
  BY <1>1, <1>5
<1>9. ASSUME NEW k \in b .. c - 1 PROVE Depth(pat, k) > d
  <2>1. CASE k = c - 1
    BY <2>1, <1>3, <1>4
  <2>2. CASE k # c - 1
    <3>1. k + 1 \in 1 .. c - 1 /\ k + 1 \notin K /\ (k + 1) - 1 = k /\ k \in 0 .. m
      BY <2>2, <1>1, <1>7, <1>8
    <3>2. ~(Depth(pat, k) <= d)
      <4>1. ~(Depth(pat, (k + 1) - 1) <= d)
        BY ONLY <3>1, <1>5
      <4> QED BY <4>1, <3>1
    <3> QED BY <3>1, <3>2, <1>2
  <2> QED BY <2>1, <2>2
<1>10. Depth(pat, b) > d /\ Depth(pat, b) \in Nat /\ Depth(pat, b - 1) \in Nat
  <2>1. b \in b .. c - 1 /\ b \in 0 .. m
    BY <1>1, <1>8
  <2> QED BY <2>1, <1>2, <1>8, <1>9
<1>11. Depth(pat, b) = Depth(pat, b - 1) + (IF pat[b].op = "(" THEN 1 ELSE IF pat[b].op = ")" THEN -1 ELSE 0)
  BY <1>1, <1>8, DepthNext
<1>12. pat[b].op = "(" /\ Depth(pat, b - 1) = d
  BY <1>8, <1>10, <1>11
<1>13. CloseOf(pat, b) = c
  <2>1. b \in 1 .. Len(pat) /\ c \in b .. Len(pat)
    BY <1>1, <1>8
  <2>2. \A k \in b .. c - 1 : Depth(pat, k) > Depth(pat, b - 1)
    BY <1>9, <1>12
  <2> QED BY <2>1, <2>2, <1>4, <1>12, ClosedWhere
<1>14. ASSUME NEW i \in b + 1 .. c - 1, pat[i].op = "(" PROVE CloseOf(pat, i) < c
  <2>1. i \in 1 .. m /\ i - 1 \in b .. c - 1 /\ i - 1 \in 0 .. m
    BY <1>1, <1>8
  <2>2. PICK e : e = CloseOf(pat, i)
    OBVIOUS
  <2>3. e \in i + 1 .. m /\ Depth(pat, e) = Depth(pat, i - 1) /\ \A k \in i .. e - 1 : Depth(pat, k) > Depth(pat, i - 1)
    BY <2>1, <2>2, <1>1, <1>14, IsClosed
  <2>4. Depth(pat, i - 1) > d /\ Depth(pat, i - 1) \in Nat
    BY <2>1, <1>2, <1>9
  <2>5. e # c
    BY <2>3, <2>4, <1>4
  <2>6. ~(c < e)
    <3>1. ASSUME c < e PROVE FALSE
      <4>1. c \in i .. e - 1
        BY <3>1, <2>1, <2>3, <1>1
      <4> QED BY <4>1, <2>3, <2>4, <1>4
    <3> QED BY <3>1
  <2> QED BY <2>2, <2>3, <2>5, <2>6, <1>1
<1>15. ASSUME NEW i \in 1 .. m, pat[i].op = "(", i # b, CloseOf(pat, i) = c PROVE FALSE
  <2>1. c \in i + 1 .. m /\ Depth(pat, c) = Depth(pat, i - 1) /\ \A k \in i .. c - 1 : Depth(pat, k) > Depth(pat, i - 1)
    BY <1>1, <1>15, IsClosed
  <2>2. CASE i > b
    <3>1. i \in b + 1 .. c - 1
      BY <2>1, <2>2, <1>1, <1>8
    <3> QED BY <3>1, <1>1, <1>14, <1>15
  <2>3. CASE i < b
    <3>1. b - 1 \in i .. c - 1
      BY <2>1, <2>3, <1>1, <1>8
    <3> QED BY <3>1, <2>1, <1>4, <1>12
  <2> QED BY <2>2, <2>3, <1>1, <1>8, <1>15
<1> QED BY <1>1, <1>8, <1>12, <1>13, <1>14, <1>15

LEMMA RankGrows ==
  ASSUME NEW pat, Usable(pat), NEW i \in Nat, NEW j \in Nat, i <= j, j <= Len(pat)
  PROVE  Rank(pat, i) <= Rank(pat, j) /\ Rank(pat, i) \in Nat /\ Rank(pat, j) \in Nat
<1>1. PICK m \in Nat : m = Len(pat)
  BY DEF Usable
<1>2. \A k \in 0 .. m : Rank(pat, k) \in Nat
  BY RankNext
<1> DEFINE T == {k \in Nat : i + k <= m => Rank(pat, i) <= Rank(pat, i + k)}
<1>3. 0 \in T
  BY <1>2
<1>4. ASSUME NEW k \in 0 .. (j - i) - 1, k \in T PROVE k + 1 \in T
  <2>1. PICK h \in Nat : h = i + k /\ h + 1 = i + (k + 1) /\ h + 1 <= m
    <3>1. i + k \in Nat /\ (i + k) + 1 = i + (k + 1) /\ (i + k) + 1 <= m
      BY <1>1
    <3> QED BY <3>1
  <2>2. Rank(pat, i) <= Rank(pat, h) /\ Rank(pat, i) \in Nat /\ Rank(pat, h) \in Nat
    <3>1. i \in 0 .. m /\ h \in 0 .. m /\ i + k <= m
      BY <2>1, <1>1
    <3> QED BY <3>1, <2>1, <1>2, <1>4
  <2>3. Rank(pat, h + 1) = Rank(pat, h) + (IF pat[h + 1].op \in CaptureOps THEN 1 ELSE 0)
    BY <2>1, <1>1, RankNext
  <2>4. Rank(pat, i) <= Rank(pat, h + 1)
    BY <2>2, <2>3
  <2> QED BY <2>1, <2>4
<1>5. PICK d \in Nat : d = j - i /\ i + d = j
  <2>1. j - i \in Nat /\ i + (j - i) = j
    OBVIOUS
  <2> QED BY <2>1
<1>6. d \in T
  <2>1. d \in 0 .. d /\ \A k \in 0 .. d - 1 : k \in T => k + 1 \in T
    BY <1>4, <1>5
  <2> HIDE DEF T
  <2> QED BY <2>1, <1>3, Induct
<1>7. i \in 0 .. m /\ j \in 0 .. m
  BY <1>1
<1> QED BY <1>1, <1>2, <1>5, <1>6, <1>7

\* The captures are counted in the order in which they begin.
LEMMA NthIs ==
  ASSUME NEW pat, Usable(pat), NEW i \in 1 .. Len(pat), pat[i].op \in CaptureOps
  PROVE  /\ Rank(pat, i) \in Nat \ {0} /\ Rank(pat, i) = Rank(pat, i - 1) + 1 /\ Rank(pat, i - 1) \in Nat
         /\ Nth(pat, Rank(pat, i)) = i
<1>1. PICK m \in Nat : m = Len(pat) /\ DOMAIN pat = 1 .. m /\ i \in 1 .. m
  BY DEF Usable
<1>2. ASSUME NEW k \in 1 .. m, pat[k].op \in CaptureOps
      PROVE  Rank(pat, k) = Rank(pat, k - 1) + 1 /\ Rank(pat, k - 1) \in Nat
  <2>1. PICK h \in Nat : h = k - 1 /\ k = h + 1
    <3>1. k - 1 \in Nat /\ k = (k - 1) + 1
      OBVIOUS
    <3> QED BY <3>1
  <2> QED BY SMTT(60), <2>1, <1>1, <1>2, RankNext
<1>3. PICK r \in Nat : r = Rank(pat, i) /\ r # 0
  BY <1>1, <1>2
<1>4. \A k \in BeginsOf(pat) : k \in 1 .. m /\ pat[k].op \in CaptureOps
  BY <1>1 DEF BeginsOf
<1>5. i \in BeginsOf(pat)
  BY <1>1 DEF BeginsOf
<1>6. PICK b : b = Nth(pat, r)
  OBVIOUS
<1>7. b \in BeginsOf(pat) /\ Rank(pat, b) = r
  BY Zenon, <1>3, <1>5, <1>6 DEF Nth
<1>8. b \in 1 .. m /\ pat[b].op \in CaptureOps
  BY <1>4, <1>7
<1>9. Rank(pat, b) = Rank(pat, b - 1) + 1 /\ Rank(pat, b - 1) \in Nat /\ Rank(pat, i) = Rank(pat, i - 1) + 1 /\ Rank(pat, i - 1) \in Nat
  BY <1>1, <1>2, <1>8
<1>10. ~(i < b)
  <2>1. ASSUME i < b PROVE FALSE
    <3>1. i \in Nat /\ b - 1 \in Nat /\ i <= b - 1 /\ b - 1 <= Len(pat)
      BY <2>1, <1>1, <1>8
    <3>2. Rank(pat, i) <= Rank(pat, b - 1)
      BY <3>1, RankGrows
    <3> QED BY <3>2, <1>3, <1>7, <1>9
  <2> QED BY <2>1
<1>11. ~(b < i)
  <2>1. ASSUME b < i PROVE FALSE
    <3>1. b \in Nat /\ i - 1 \in Nat /\ b <= i - 1 /\ i - 1 <= Len(pat)
      BY <2>1, <1>1, <1>8
    <3>2. Rank(pat, b) <= Rank(pat, i - 1)
      BY <3>1, RankGrows
    <3>3. r <= Rank(pat, i - 1) /\ r = Rank(pat, i - 1) + 1 /\ Rank(pat, i - 1) \in Nat
      BY Zenon, <3>2, <1>3, <1>7, <1>9
    <3> QED BY <3>3
  <2> QED BY <2>1
<1> QED BY <1>1, <1>3, <1>6, <1>8, <1>9, <1>10, <1>11

LEMMA NthIn ==
  ASSUME NEW pat, Usable(pat), NEW i \in 0 .. Len(pat), NEW l \in 1 .. Rank(pat, i)
  PROVE  Nth(pat, l) \in 1 .. i /\ pat[Nth(pat, l)].op \in CaptureOps /\ Rank(pat, Nth(pat, l)) = l
<1>1. PICK m \in Nat : m = Len(pat) /\ i \in 0 .. m
  BY DEF Usable
<1>2. \A k \in 0 .. m : Rank(pat, k) \in Nat
  BY RankNext
<1>3. PICK K : K = {k \in 0 .. i : Rank(pat, k) >= l}
  OBVIOUS
<1>4. PICK b \in K : \A k \in K : b <= k
  <2>1. i \in K
    BY <1>1, <1>2, <1>3
  <2>2. K \subseteq Nat /\ K # {}
    BY <2>1, <1>1, <1>3
  <2> QED BY ONLY <2>2, Least
<1>5. b \in 0 .. i /\ Rank(pat, b) >= l
  BY <1>3
<1>6. b # 0
  <2>1. Rank(pat, 0) = 0
    BY RankNext
  <2> QED BY <2>1, <1>5
<1>7. PICK h \in Nat : h = b - 1 /\ b = h + 1 /\ h \in 0 .. m /\ b \in 1 .. m
  <2>1. b - 1 \in Nat /\ b = (b - 1) + 1 /\ b - 1 \in 0 .. m /\ b \in 1 .. m
    BY <1>1, <1>5, <1>6
  <2> QED BY <2>1
<1>8. Rank(pat, h) < l
  <2>1. h \notin K /\ h \in 0 .. i
    BY <1>4, <1>5, <1>7
  <2> QED BY <2>1, <1>2, <1>3, <1>7
<1>9. Rank(pat, b) = Rank(pat, h) + (IF pat[b].op \in CaptureOps THEN 1 ELSE 0)
  <2>1. h + 1 <= Len(pat)
    BY <1>1, <1>7
  <2>2. Rank(pat, h + 1) = Rank(pat, h) + (IF pat[h + 1].op \in CaptureOps THEN 1 ELSE 0)
    BY <2>1, RankNext
  <2> QED BY Zenon, <2>2, <1>7
<1>10. Rank(pat, b) = l /\ pat[b].op \in CaptureOps
  BY <1>2, <1>5, <1>7, <1>8, <1>9
<1>11. Nth(pat, l) = b
  BY <1>1, <1>7, <1>10, NthIs
<1> QED BY <1>1, <1>5, <1>7, <1>10, <1>11

\* Where %1 comes, the first capture is closed.
LEMMA FirstClosed ==
  ASSUME NEW pat, Usable(pat), NEW q \in 1 .. Len(pat), pat[q].op = "%1"
  PROVE  /\ 1 \in 1 .. Rank(pat, q - 1) /\ Nth(pat, 1) \in 1 .. q - 1
         /\ pat[Nth(pat, 1)].op = "()" \/ (pat[Nth(pat, 1)].op = "(" /\ CloseOf(pat, Nth(pat, 1)) \in 1 .. q - 1)
<1>1. PICK m \in Nat : m = Len(pat) /\ q \in 1 .. m
  BY DEF Usable
<1>2. PICK j \in 1 .. q : pat[j].op \in {"()", ")"} /\ Count(pat, j, "(") = Count(pat, j, ")")
  BY <1>1 DEF Usable, WellFormed
<1>3. j \in 1 .. q - 1 /\ j \in 1 .. m /\ j \in 0 .. m
  <2>1. j # q
    BY <1>2
  <2> QED BY <2>1, <1>1
<1>4. Depth(pat, j) = 0
  <2>1. Count(pat, j, "(") \in Nat /\ Count(pat, j, ")") \in Nat
    BY <1>3, CountNext
  <2> QED BY <2>1, <1>2 DEF Depth
<1>5. Rank(pat, j) \in Nat \ {0}
  <2>1. CASE pat[j].op = "()"
    BY <2>1, <1>1, <1>3, NthIs DEF CaptureOps
  <2>2. CASE pat[j].op = ")"
    <3>1. PICK b \in 1 .. j - 1 : pat[b].op = "("
      BY <2>2, <1>1, <1>3, ClosesOne
    <3>2. b \in 1 .. Len(pat) /\ b \in Nat /\ j \in Nat /\ b <= j /\ j <= Len(pat)
      BY <1>1, <1>3
    <3>3. Rank(pat, b) \in Nat \ {0}
      BY <3>1, <3>2, NthIs DEF CaptureOps
    <3>4. Rank(pat, b) <= Rank(pat, j) /\ Rank(pat, j) \in Nat
      BY <3>2, RankGrows
    <3> QED BY <3>3, <3>4
  <2> QED BY <2>1, <2>2, <1>2
<1>6. PICK b : b = Nth(pat, 1)
  OBVIOUS
<1>7. b \in 1 .. j /\ pat[b].op \in CaptureOps
  <2>1. j \in 0 .. Len(pat) /\ 1 \in 1 .. Rank(pat, j)
    BY <1>1, <1>3, <1>5
  <2> QED BY <2>1, <1>6, NthIn
<1>8. 1 \in 1 .. Rank(pat, q - 1)
  <2>1. j \in Nat /\ q - 1 \in Nat /\ j <= q - 1 /\ q - 1 <= Len(pat)
    BY <1>1, <1>3
  <2>2. Rank(pat, j) <= Rank(pat, q - 1) /\ Rank(pat, q - 1) \in Nat
    BY <2>1, RankGrows
  <2> QED BY <2>2, <1>5
<1>9. CASE pat[b].op = "("
  <2>1. PICK c : c = CloseOf(pat, b)
    OBVIOUS
  <2>2. c \in b + 1 .. m /\ \A k \in b .. c - 1 : Depth(pat, k) > Depth(pat, b - 1)
    BY <2>1, <1>1, <1>3, <1>7, <1>9, IsClosed
  <2>3. Depth(pat, b - 1) \in Nat
    <3>1. b - 1 \in 0 .. m
      BY <1>3, <1>7
    <3> QED BY <3>1, <1>1, DepthNext
  <2>4. ~(j < c)
    <3>1. ASSUME j < c PROVE FALSE
      <4>1. j \in b .. c - 1
        BY <3>1, <2>2, <1>3, <1>7
      <4> QED BY <4>1, <2>2, <2>3, <1>4
    <3> QED BY <3>1
  <2>5. c \in 1 .. q - 1
    BY <2>2, <2>4, <1>1, <1>3, <1>7
  <2> QED BY <2>1, <2>5, <1>3, <1>6, <1>7, <1>8, <1>9
<1>10. CASE pat[b].op = "()"
  BY <1>3, <1>6, <1>7, <1>8, <1>10
<1> QED BY <1>7, <1>9, <1>10 DEF CaptureOps

-----------------------------------------------------------------------------
(* Captures: a pattern is cut at cut[i] behind its i-th part.               *)

CaptureAt(pat, cut, i, l) ==
  [init |-> cut[Nth(pat, l)],
   len  |-> IF pat[Nth(pat, l)].op = "()" THEN Position
            ELSE IF CloseOf(pat, Nth(pat, l)) <= i THEN cut[CloseOf(pat, Nth(pat, l))] - cut[Nth(pat, l)]
            ELSE Unfinished]
\* The captures that the first i parts leave.
CapsAt(pat, cut, i) == [l \in 1 .. Rank(pat, i) |-> CaptureAt(pat, cut, i, l)]
Agree(a, b, i)      == \A k \in 0 .. i : a[k] = b[k]
Rising(cut, i)      == (\A k \in 0 .. i : cut[k] \in Nat) /\ \A k \in 1 .. i : cut[k - 1] <= cut[k]
CapturedOf(pat, cut) ==
  [l \in 1 .. Cardinality(BeginsOf(pat)) |->
     [init |-> cut[Nth(pat, l)],
      len  |-> IF pat[Nth(pat, l)].op = "()" THEN Position ELSE cut[CloseOf(pat, Nth(pat, l))] - cut[Nth(pat, l)]]]
Records == [init : Int, len : Int]

LEMMA Rises ==
  ASSUME NEW cut, NEW i \in Nat, Rising(cut, i), NEW j \in 0 .. i, NEW k \in 0 .. i, j <= k
  PROVE  cut[j] <= cut[k] /\ cut[j] \in Nat /\ cut[k] \in Nat
<1> DEFINE T == {h \in Nat : j + h <= i => cut[j] <= cut[j + h]}
<1>1. \A h \in 0 .. i : cut[h] \in Nat
  BY DEF Rising
<1>2. 0 \in T
  BY <1>1
<1>3. ASSUME NEW h \in 0 .. (k - j) - 1, h \in T PROVE h + 1 \in T
  <2>1. PICK g \in 1 .. i : g = j + (h + 1) /\ g - 1 = j + h /\ g \in 0 .. i /\ g - 1 \in 0 .. i
    <3>1. j + (h + 1) \in 1 .. i /\ (j + (h + 1)) - 1 = j + h
      OBVIOUS
    <3> QED BY <3>1
  <2>2. cut[g - 1] <= cut[g]
    BY DEF Rising
  <2>3. cut[j] <= cut[g - 1]
    BY <2>1, <1>3
  <2>4. cut[j] <= cut[g]
    BY <2>1, <2>2, <2>3, <1>1
  <2> QED BY <2>1, <2>4
<1>4. PICK d \in Nat : d = k - j /\ j + d = k
  <2>1. k - j \in Nat /\ j + (k - j) = k
    OBVIOUS
  <2> QED BY <2>1
<1>5. d \in T
  <2>1. d \in 0 .. d /\ \A h \in 0 .. d - 1 : h \in T => h + 1 \in T
    BY <1>3, <1>4
  <2> HIDE DEF T
  <2> QED BY <2>1, <1>2, Induct
<1> QED BY <1>1, <1>4, <1>5

\* What a capture is, when the first i parts have been matched.
LEMMA CaptureIs ==
  ASSUME NEW pat, Usable(pat), NEW i \in 0 .. Len(pat), NEW cut, Rising(cut, i), NEW l \in 1 .. Rank(pat, i)
  PROVE  /\ CaptureAt(pat, cut, i, l) \in Records
         /\ CaptureAt(pat, cut, i, l).init \in Nat
         /\ CaptureAt(pat, cut, i, l).len = Unfinished <=> pat[Nth(pat, l)].op = "(" /\ CloseOf(pat, Nth(pat, l)) > i
         /\ CaptureAt(pat, cut, i, l).len \in Nat \cup {Unfinished, Position}
         /\ pat[Nth(pat, l)].op = "(" => CaptureAt(pat, cut, i, l).len # Position
<1>1. PICK m \in Nat : m = Len(pat) /\ i \in 0 .. m
  BY DEF Usable
<1>2. PICK b \in 1 .. i : b = Nth(pat, l) /\ pat[b].op \in CaptureOps
  BY NthIn
<1>3. b \in 0 .. i /\ b \in 1 .. m /\ cut[b] \in Nat
  BY <1>1 DEF Rising
<1>4. PICK c : c = CloseOf(pat, b)
  OBVIOUS
<1>5. CaptureAt(pat, cut, i, l) = [init |-> cut[b], len |-> IF pat[b].op = "()" THEN Position
                                     ELSE IF c <= i THEN cut[c] - cut[b] ELSE Unfinished]
  BY Zenon, <1>2, <1>4 DEF CaptureAt
<1>6. CASE pat[b].op = "()"
  BY <1>2, <1>3, <1>5, <1>6 DEF Records, Position, Unfinished
<1>7. CASE pat[b].op = "("
  <2>1. c \in b + 1 .. m
    BY <1>1, <1>3, <1>4, <1>7, IsClosed
  <2>2. CASE c <= i
    <3>1. c \in 0 .. i /\ b <= c
      BY <2>1, <2>2, <1>1
    <3>2. cut[b] <= cut[c] /\ cut[c] \in Nat
      BY <3>1, <1>1, <1>3, Rises
    <3>3. PICK x \in Nat : x = cut[c] - cut[b]
      BY <3>2, <1>3
    <3>4. CaptureAt(pat, cut, i, l) = [init |-> cut[b], len |-> x]
      BY <3>3, <2>2, <1>5, <1>7
    <3> QED BY <3>4, <2>1, <2>2, <1>1, <1>2, <1>3, <1>4, <1>7 DEF Records, Position, Unfinished
  <2>3. CASE ~(c <= i)
    <3>1. CaptureAt(pat, cut, i, l) = [init |-> cut[b], len |-> Unfinished]
      BY <2>3, <1>5, <1>7
    <3> QED BY <3>1, <2>1, <2>3, <1>1, <1>2, <1>3, <1>4, <1>7 DEF Records, Position, Unfinished
  <2> QED BY <2>2, <2>3
<1> QED BY <1>2, <1>6, <1>7 DEF CaptureOps

LEMMA CapsAre ==
  ASSUME NEW pat, Usable(pat), NEW i \in 0 .. Len(pat), NEW cut, Rising(cut, i)
  PROVE  /\ CapsAt(pat, cut, i) \in Seq(Records) /\ Len(CapsAt(pat, cut, i)) = Rank(pat, i) /\ Rank(pat, i) \in Nat
         /\ DOMAIN CapsAt(pat, cut, i) = 1 .. Rank(pat, i)
         /\ \A l \in 1 .. Rank(pat, i) : CapsAt(pat, cut, i)[l] = CaptureAt(pat, cut, i, l)
         /\ OpenIn(CapsAt(pat, cut, i)) = {l \in 1 .. Rank(pat, i) : pat[Nth(pat, l)].op = "(" /\ CloseOf(pat, Nth(pat, l)) > i}
<1>1. PICK r \in Nat : r = Rank(pat, i)
  <2>1. Len(pat) \in Nat
    BY DEF Usable
  <2> QED BY <2>1, RankNext
<1>2. PICK cs : cs = CapsAt(pat, cut, i) /\ cs = [l \in 1 .. r |-> CaptureAt(pat, cut, i, l)]
  BY <1>1 DEF CapsAt
<1>3. \A l \in 1 .. r : CaptureAt(pat, cut, i, l) \in Records
  BY <1>1, CaptureIs
<1>4. DOMAIN cs = 1 .. r /\ \A l \in 1 .. r : cs[l] = CaptureAt(pat, cut, i, l)
  BY <1>2
<1>5. cs \in Seq(Records) /\ Len(cs) = r
  <2>1. cs \in [1 .. r -> Records]
    BY <1>2, <1>3
  <2> QED BY <2>1
<1>6. OpenIn(cs) = {l \in 1 .. r : pat[Nth(pat, l)].op = "(" /\ CloseOf(pat, Nth(pat, l)) > i}
  <2>1. \A l \in 1 .. r : cs[l].len = Unfinished <=> pat[Nth(pat, l)].op = "(" /\ CloseOf(pat, Nth(pat, l)) > i
    BY <1>1, <1>4, CaptureIs
  <2> QED BY <2>1, <1>4 DEF OpenIn
<1> QED BY <1>1, <1>2, <1>4, <1>5, <1>6

\* Captures depend on the cuts that have been made.
LEMMA CapsAgree ==
  ASSUME NEW pat, Usable(pat), NEW i \in 0 .. Len(pat), NEW a, NEW b, Agree(a, b, i)
  PROVE  CapsAt(pat, a, i) = CapsAt(pat, b, i)
<1>1. PICK m \in Nat : m = Len(pat) /\ i \in 0 .. m
  BY DEF Usable
<1>2. ASSUME NEW l \in 1 .. Rank(pat, i)
      PROVE  CaptureAt(pat, a, i, l) = CaptureAt(pat, b, i, l)
  <2>1. PICK h \in 1 .. i : h = Nth(pat, l) /\ pat[h].op \in CaptureOps
    BY NthIn
  <2>2. PICK c : c = CloseOf(pat, h)
    OBVIOUS
  <2>3. h \in 0 .. i /\ h \in 1 .. m
    BY <1>1
  <2>4. a[h] = b[h]
    BY <2>3 DEF Agree
  <2>5. pat[h].op # "()" /\ c <= i => a[c] = b[c]
    <3>1. ASSUME pat[h].op # "()", c <= i PROVE a[c] = b[c]
      <4>1. pat[h].op = "("
        BY <2>1, <3>1 DEF CaptureOps
      <4>2. c \in h + 1 .. m
        BY <4>1, <2>2, <2>3, <1>1, IsClosed
      <4>3. c \in 0 .. i
        BY <4>2, <3>1, <2>3, <1>1
      <4> QED BY <4>3 DEF Agree
    <3> QED BY <3>1
  <2> QED BY Zenon, <2>1, <2>2, <2>4, <2>5 DEF CaptureAt
<1> QED BY Zenon, <1>2 DEF CapsAt

\* A part that is no capture leaves the captures as they are.
LEMMA CapsStay ==
  ASSUME NEW pat, Usable(pat), NEW q \in 1 .. Len(pat), pat[q].op \notin {"(", "()", ")"},
         NEW a, NEW b, Agree(a, b, q - 1)
  PROVE  CapsAt(pat, b, q) = CapsAt(pat, a, q - 1)
<1>1. PICK m \in Nat : m = Len(pat) /\ q \in 1 .. m
  BY DEF Usable
<1>2. PICK h \in Nat : h = q - 1 /\ q = h + 1 /\ h \in 0 .. m
  <2>1. q - 1 \in Nat /\ q = (q - 1) + 1 /\ q - 1 \in 0 .. m
    BY <1>1
  <2> QED BY <2>1
<1>3. Rank(pat, q) = Rank(pat, h)
  <2>1. h + 1 <= Len(pat) /\ pat[h + 1].op \notin CaptureOps
    BY <1>1, <1>2 DEF CaptureOps
  <2>2. Rank(pat, h + 1) = Rank(pat, h) + 0 /\ Rank(pat, h) \in Nat
    BY <2>1, RankNext
  <2> QED BY <2>2, <1>2
<1>4. ASSUME NEW l \in 1 .. Rank(pat, h)
      PROVE  CaptureAt(pat, b, q, l) = CaptureAt(pat, b, h, l)
  <2>1. PICK j \in 1 .. h : j = Nth(pat, l) /\ pat[j].op \in CaptureOps
    BY <1>1, <1>2, NthIn
  <2>2. PICK c : c = CloseOf(pat, j)
    OBVIOUS
  <2>3. pat[j].op # "()" => (c <= q <=> c <= h)
    <3>1. ASSUME pat[j].op # "()" PROVE c <= q <=> c <= h
      <4>1. pat[j].op = "(" /\ j \in 1 .. m
        BY <2>1, <3>1, <1>2 DEF CaptureOps
      <4>2. c \in j + 1 .. m /\ pat[c].op = ")"
        BY <4>1, <2>2, <1>1, IsClosed
      <4> QED BY <4>2, <1>2
    <3> QED BY <3>1
  <2> QED BY Zenon, <2>1, <2>2, <2>3 DEF CaptureAt
<1>5. CapsAt(pat, b, q) = CapsAt(pat, b, h)
  BY Zenon, <1>3, <1>4 DEF CapsAt
<1>6. CapsAt(pat, a, h) = CapsAt(pat, b, h)
  BY <1>1, <1>2, CapsAgree
<1> QED BY Zenon, <1>2, <1>5, <1>6

\* Two lists of captures are the same.
LEMMA SameCaps ==
  ASSUME NEW a \in Seq(Records), NEW b \in Seq(Records), Len(a) = Len(b), \A l \in 1 .. Len(a) : a[l] = b[l]
  PROVE  a = b
OBVIOUS

LEMMA RankCounts ==
  ASSUME NEW pat, Usable(pat)
  PROVE  Rank(pat, Len(pat)) = Count(pat, Len(pat), "(") + Count(pat, Len(pat), "()")
<1>1. PICK m \in Nat : m = Len(pat)
  BY DEF Usable
<1> DEFINE T == {k \in Nat : k <= m => Rank(pat, k) = Count(pat, k, "(") + Count(pat, k, "()")}
<1>2. 0 \in T
  BY CountNext, RankNext
<1>3. ASSUME NEW k \in 0 .. m - 1, k \in T PROVE k + 1 \in T
  <2>1. k \in Nat /\ k + 1 <= Len(pat)
    BY <1>1
  <2>2. /\ Rank(pat, k) \in Nat /\ Count(pat, k, "(") \in Nat /\ Count(pat, k, "()") \in Nat
        /\ Rank(pat, k + 1) = Rank(pat, k) + (IF pat[k + 1].op \in CaptureOps THEN 1 ELSE 0)
        /\ Count(pat, k + 1, "(") = Count(pat, k, "(") + (IF pat[k + 1].op = "(" THEN 1 ELSE 0)
        /\ Count(pat, k + 1, "()") = Count(pat, k, "()") + (IF pat[k + 1].op = "()" THEN 1 ELSE 0)
    BY <2>1, CountNext, RankNext
  <2>3. Rank(pat, k) = Count(pat, k, "(") + Count(pat, k, "()")
    BY <1>3, <1>1
  <2>4. Rank(pat, k + 1) = Count(pat, k + 1, "(") + Count(pat, k + 1, "()")
    BY <2>2, <2>3 DEF CaptureOps
  <2> QED BY <2>1, <2>4
<1>4. m \in T
  <2>1. m \in 0 .. m
    OBVIOUS
  <2> HIDE DEF T
  <2> QED BY <2>1, <1>2, <1>3, Induct
<1> QED BY <1>1, <1>4

\* A capture begins.
LEMMA CapsStart ==
  ASSUME NEW pat, Usable(pat), NEW q \in 1 .. Len(pat), pat[q].op \in CaptureOps, NEW cut, Rising(cut, q),
         NEW what, what = IF pat[q].op = "()" THEN Position ELSE Unfinished
  PROVE  /\ CapsAt(pat, cut, q) = Append(CapsAt(pat, cut, q - 1), [init |-> cut[q], len |-> what])
         /\ SubSeq(CapsAt(pat, cut, q), 1, Len(CapsAt(pat, cut, q)) - 1) = CapsAt(pat, cut, q - 1)
         /\ Len(CapsAt(pat, cut, q - 1)) < MaxCaptures
<1>1. PICK m \in Nat : m = Len(pat) /\ q \in 1 .. m
  BY DEF Usable
<1>2. PICK h \in Nat : h = q - 1 /\ q = h + 1 /\ h \in 0 .. m /\ q \in 0 .. m
  <2>1. q - 1 \in Nat /\ q = (q - 1) + 1 /\ q - 1 \in 0 .. m /\ q \in 0 .. m
    BY <1>1
  <2> QED BY <2>1
<1>3. PICK r \in Nat : r = Rank(pat, h) /\ Rank(pat, q) = r + 1 /\ Nth(pat, r + 1) = q
  BY <1>1, <1>2, NthIs
<1>4. Rising(cut, h)
  BY <1>2 DEF Rising
<1>5. PICK cs \in Seq(Records), ds \in Seq(Records) :
        /\ cs = CapsAt(pat, cut, h) /\ ds = CapsAt(pat, cut, q) /\ Len(cs) = r /\ Len(ds) = r + 1
        /\ \A l \in 1 .. r : cs[l] = CaptureAt(pat, cut, h, l)
        /\ \A l \in 1 .. r + 1 : ds[l] = CaptureAt(pat, cut, q, l)
  <2>1. h \in 0 .. Len(pat) /\ q \in 0 .. Len(pat)
    BY <1>1, <1>2
  <2> QED BY <2>1, <1>3, <1>4, CapsAre
<1>6. PICK new \in Records : new = [init |-> cut[q], len |-> what] /\ ds[r + 1] = new
  <2>1. cut[q] \in Nat
    BY <1>2 DEF Rising
  <2>2. [init |-> cut[q], len |-> what] \in Records
    BY <2>1 DEF Records, Position, Unfinished
  <2>3. ds[r + 1] = CaptureAt(pat, cut, q, r + 1)
    BY <1>5
  <2>4. CaptureAt(pat, cut, q, r + 1) = [init |-> cut[q], len |-> what]
    <3>1. CASE pat[q].op = "()"
      BY Zenon, <3>1, <1>3 DEF CaptureAt
    <3>2. CASE pat[q].op = "("
      <4>1. CloseOf(pat, q) \in q + 1 .. m
        BY <3>2, <1>1, IsClosed
      <4>2. ~(CloseOf(pat, q) <= q) /\ what = Unfinished /\ pat[q].op # "()"
        BY <3>2, <4>1, <1>1
      <4> QED BY Zenon, <4>2, <1>3 DEF CaptureAt
    <3> QED BY <3>1, <3>2 DEF CaptureOps
  <2> QED BY <2>2, <2>3, <2>4
<1>7. \A l \in 1 .. r : ds[l] = cs[l]
  <2> SUFFICES ASSUME NEW l \in 1 .. r PROVE ds[l] = cs[l]
    OBVIOUS
  <2>1. PICK j \in 1 .. h : j = Nth(pat, l) /\ pat[j].op \in CaptureOps
    BY <1>1, <1>2, <1>3, NthIn
  <2>2. PICK c : c = CloseOf(pat, j)
    OBVIOUS
  <2>3. pat[j].op # "()" => (c <= q <=> c <= h)
    <3>1. ASSUME pat[j].op # "()" PROVE c <= q <=> c <= h
      <4>1. pat[j].op = "(" /\ j \in 1 .. m
        BY <2>1, <3>1, <1>2 DEF CaptureOps
      <4>2. c \in j + 1 .. m /\ pat[c].op = ")"
        BY <4>1, <2>2, <1>1, IsClosed
      <4>3. c # q
        BY <4>2 DEF CaptureOps
      <4> QED BY <4>2, <4>3, <1>2
    <3> QED BY <3>1
  <2>4. CaptureAt(pat, cut, q, l) = CaptureAt(pat, cut, h, l)
    BY Zenon, <2>1, <2>2, <2>3 DEF CaptureAt
  <2>5. l \in 1 .. r + 1
    OBVIOUS
  <2> QED BY <2>4, <2>5, <1>5
<1>8. ds = Append(cs, new)
  <2>1. Append(cs, new) \in Seq(Records) /\ Len(Append(cs, new)) = r + 1 /\ Append(cs, new)[r + 1] = new
        /\ \A l \in 1 .. r : Append(cs, new)[l] = cs[l]
    BY <1>5
  <2>2. \A l \in 1 .. r + 1 : l \in 1 .. r \/ l = r + 1
    OBVIOUS
  <2>3. \A l \in 1 .. Len(ds) : ds[l] = Append(cs, new)[l]
    BY <2>1, <2>2, <1>5, <1>6, <1>7
  <2> QED BY <2>1, <2>3, <1>5, SameCaps
<1>9. SubSeq(ds, 1, r) = cs
  <2>1. SubSeq(ds, 1, r) \in Seq(Records) /\ Len(SubSeq(ds, 1, r)) = r /\ \A l \in 1 .. r : SubSeq(ds, 1, r)[l] = ds[l]
    BY <1>5
  <2> QED BY <2>1, <1>5, <1>7, SameCaps
<1>10. r < MaxCaptures
  <2>1. q \in Nat /\ m \in Nat /\ q <= m /\ m <= Len(pat)
    BY <1>1, <1>2
  <2>2. Rank(pat, q) <= Rank(pat, m) /\ Rank(pat, m) \in Nat
    BY <2>1, RankGrows
  <2>3. Rank(pat, m) <= MaxCaptures
    BY <1>1, RankCounts DEF Usable, WellFormed
  <2>4. MaxCaptures \in Nat
    BY StringMatchAssumption
  <2> QED BY <2>2, <2>3, <2>4, <1>3
<1> QED BY <1>2, <1>5, <1>6, <1>8, <1>9, <1>10

\* The q-th part closes the l-th capture, the last one that is open.
Shut(pat, cut, q, l) ==
  /\ pat[Nth(pat, l)].op = "(" /\ CloseOf(pat, Nth(pat, l)) = q
  /\ OpenIn(CapsAt(pat, cut, q - 1)) # {} /\ l = LastOpen(CapsAt(pat, cut, q - 1))
  /\ CapsAt(pat, cut, q) = [CapsAt(pat, cut, q - 1) EXCEPT ![l].len = cut[q] - CapsAt(pat, cut, q - 1)[l].init]
  /\ [CapsAt(pat, cut, q) EXCEPT ![l].len = Unfinished] = CapsAt(pat, cut, q - 1)

LEMMA CapsEnd ==
  ASSUME NEW pat, Usable(pat), NEW q \in 1 .. Len(pat), pat[q].op = ")", NEW cut, Rising(cut, q)
  PROVE  \E l \in 1 .. Rank(pat, q - 1) : Shut(pat, cut, q, l)
<1>1. PICK m \in Nat : m = Len(pat) /\ q \in 1 .. m
  BY DEF Usable
<1>2. PICK h \in Nat : h = q - 1 /\ q = h + 1 /\ h \in 0 .. m /\ q \in 0 .. m
  <2>1. q - 1 \in Nat /\ q = (q - 1) + 1 /\ q - 1 \in 0 .. m /\ q \in 0 .. m
    BY <1>1
  <2> QED BY <2>1
<1>3. PICK b \in 1 .. h :
        /\ pat[b].op = "(" /\ CloseOf(pat, b) = q
        /\ \A i \in 1 .. m : pat[i].op = "(" /\ i # b => CloseOf(pat, i) # q
        /\ \A i \in b + 1 .. h : pat[i].op = "(" => CloseOf(pat, i) < q
  BY <1>1, <1>2, ClosesOne
<1>4. PICK r \in Nat : r = Rank(pat, h) /\ Rank(pat, q) = r
  <2>1. h + 1 <= Len(pat) /\ pat[h + 1].op \notin CaptureOps
    BY <1>1, <1>2 DEF CaptureOps
  <2>2. Rank(pat, h + 1) = Rank(pat, h) + 0 /\ Rank(pat, h) \in Nat
    BY <2>1, RankNext
  <2> QED BY <2>2, <1>2
<1>5. PICK l \in 1 .. r : l = Rank(pat, b) /\ Nth(pat, l) = b
  <2>1. b \in 1 .. Len(pat) /\ pat[b].op \in CaptureOps /\ b \in Nat /\ b <= h /\ h <= Len(pat)
    BY <1>1, <1>2, <1>3 DEF CaptureOps
  <2>2. Rank(pat, b) \in Nat \ {0} /\ Nth(pat, Rank(pat, b)) = b /\ Rank(pat, b) <= r
    BY <2>1, <1>4, NthIs, RankGrows
  <2> QED BY <2>2
<1>6. Rising(cut, h)
  BY <1>2 DEF Rising
<1>7. PICK cs \in Seq(Records), ds \in Seq(Records) :
        /\ cs = CapsAt(pat, cut, h) /\ ds = CapsAt(pat, cut, q) /\ Len(cs) = r /\ Len(ds) = r
        /\ \A k \in 1 .. r : cs[k] = CaptureAt(pat, cut, h, k)
        /\ \A k \in 1 .. r : ds[k] = CaptureAt(pat, cut, q, k)
        /\ OpenIn(cs) = {k \in 1 .. r : pat[Nth(pat, k)].op = "(" /\ CloseOf(pat, Nth(pat, k)) > h}
  <2>1. h \in 0 .. Len(pat) /\ q \in 0 .. Len(pat)
    BY <1>1, <1>2
  <2> QED BY <2>1, <1>4, <1>6, CapsAre
<1>8. ASSUME NEW k \in 1 .. r
      PROVE  /\ Nth(pat, k) \in 1 .. h /\ pat[Nth(pat, k)].op \in CaptureOps /\ Rank(pat, Nth(pat, k)) = k
             /\ k # l => ds[k] = cs[k]
             /\ k \in OpenIn(cs) => k <= l
  <2>1. PICK j \in 1 .. h : j = Nth(pat, k) /\ pat[j].op \in CaptureOps /\ Rank(pat, j) = k
    BY <1>1, <1>2, <1>4, NthIn
  <2>2. PICK c : c = CloseOf(pat, j)
    OBVIOUS
  <2>3. ASSUME k # l PROVE pat[j].op # "()" => (c <= q <=> c <= h)
    <3>1. ASSUME pat[j].op # "()" PROVE c <= q <=> c <= h
      <4>1. pat[j].op = "(" /\ j \in 1 .. m /\ j # b
        BY SMTT(60), <2>1, <2>3, <3>1, <1>2, <1>5 DEF CaptureOps
      <4>2. c \in j + 1 .. m /\ c # q
        BY <4>1, <2>2, <1>1, <1>3, IsClosed
      <4> QED BY <4>2, <1>2
    <3> QED BY <3>1
  <2>4. ASSUME k # l PROVE ds[k] = cs[k]
    <3>1. CaptureAt(pat, cut, q, k) = CaptureAt(pat, cut, h, k)
      BY Zenon, <2>1, <2>2, <2>3, <2>4 DEF CaptureAt
    <3> QED BY <3>1, <1>7
  <2>5. ASSUME k \in OpenIn(cs), ~(k <= l) PROVE FALSE
    <3>1. pat[j].op = "(" /\ c > h
      BY <2>1, <2>2, <2>5, <1>7
    <3>2. b < j
      <4>1. ASSUME ~(b < j) PROVE FALSE
        <5>1. j \in Nat /\ b \in Nat /\ j <= b /\ b <= Len(pat)
          BY <4>1, <1>1, <1>2
        <5>2. Rank(pat, j) <= Rank(pat, b)
          BY <5>1, RankGrows
        <5> QED BY <5>2, <2>1, <2>5, <1>5
      <4> QED BY <4>1
    <3>3. j \in b + 1 .. h /\ j \in 1 .. m
      BY <3>2, <1>2
    <3>4. c < q /\ c \in j + 1 .. m
      BY <3>1, <3>3, <2>2, <1>1, <1>3, IsClosed
    <3> QED BY <3>1, <3>4, <1>2
  <2> QED BY <2>1, <2>4, <2>5
<1>9. l \in OpenIn(cs)
  BY <1>2, <1>3, <1>5, <1>7
<1>10. l = LastOpen(cs)
  <2>1. PICK o : o = LastOpen(cs)
    OBVIOUS
  <2>2. OpenIn(cs) \subseteq 1 .. r
    BY <1>7
  <2>3. \A k \in OpenIn(cs) : k <= l
    BY <2>2, <1>8
  <2>4. o \in OpenIn(cs) /\ \A k \in OpenIn(cs) : k <= o
    BY Zenon, <2>1, <2>3, <1>9 DEF LastOpen
  <2>5. l <= o /\ o <= l /\ o \in 1 .. r
    BY <2>2, <2>3, <2>4, <1>9
  <2> QED BY <2>1, <2>5
<1>11. cs[l] = [init |-> cut[b], len |-> Unfinished] /\ ds[l] = [init |-> cut[b], len |-> cut[q] - cut[b]]
  <2>1. ~(q <= h) /\ q <= q /\ pat[b].op # "()"
    BY <1>2, <1>3
  <2>2. CaptureAt(pat, cut, h, l) = [init |-> cut[b], len |-> Unfinished]
    BY Zenon, <2>1, <1>3, <1>5 DEF CaptureAt
  <2>3. CaptureAt(pat, cut, q, l) = [init |-> cut[b], len |-> cut[q] - cut[b]]
    BY Zenon, <2>1, <1>3, <1>5 DEF CaptureAt
  <2> QED BY <2>2, <2>3, <1>7
<1>12. cs \in [1 .. r -> Records] /\ ds \in [1 .. r -> Records]
  BY <1>7
<1>13. ds = [cs EXCEPT ![l].len = cut[q] - cs[l].init]
  <2>1. PICK x : x = cut[q] - cs[l].init
    OBVIOUS
  <2>2. PICK es : es = [cs EXCEPT ![l].len = x]
    OBVIOUS
  <2>3. DOMAIN es = 1 .. r /\ es = [k \in 1 .. r |-> es[k]]
    BY <2>2, <1>12
  <2>4. ASSUME NEW k \in 1 .. r PROVE es[k] = ds[k]
    <3>1. CASE k = l
      BY <3>1, <2>1, <2>2, <1>11, <1>12
    <3>2. CASE k # l
      BY <3>2, <2>2, <1>8, <1>12
    <3> QED BY <3>1, <3>2
  <2>5. es = ds
    BY <2>3, <2>4, <1>12
  <2> QED BY Zenon, <2>1, <2>2, <2>5
<1>14. [ds EXCEPT ![l].len = Unfinished] = cs
  <2>2. PICK es : es = [ds EXCEPT ![l].len = Unfinished]
    OBVIOUS
  <2>3. DOMAIN es = 1 .. r /\ es = [k \in 1 .. r |-> es[k]]
    BY <2>2, <1>12
  <2>4. ASSUME NEW k \in 1 .. r PROVE es[k] = cs[k]
    <3>1. CASE k = l
      BY <3>1, <2>2, <1>11, <1>12
    <3>2. CASE k # l
      BY <3>2, <2>2, <1>8, <1>12
    <3> QED BY <3>1, <3>2
  <2>5. es = cs
    BY <2>3, <2>4, <1>12
  <2> QED BY Zenon, <2>2, <2>5
<1>15. OpenIn(cs) # {}
  BY <1>9
<1> QED BY Zenon, <1>2, <1>3, <1>4, <1>5, <1>7, <1>10, <1>13, <1>14, <1>15 DEF Shut

\* All captures are closed where the pattern ends.
LEMMA CapsDone ==
  ASSUME NEW pat, Usable(pat), NEW cut, Rising(cut, Len(pat))
  PROVE  OpenIn(CapsAt(pat, cut, Len(pat))) = {} /\ CapsAt(pat, cut, Len(pat)) = CapturedOf(pat, cut)
<1>1. PICK m \in Nat : m = Len(pat) /\ m \in 0 .. m
  <2>1. Len(pat) \in Nat /\ Len(pat) \in 0 .. Len(pat)
    BY DEF Usable
  <2> QED BY <2>1
<1>2. PICK r \in Nat : r = Rank(pat, m) /\ Cardinality(BeginsOf(pat)) = r
  BY <1>1, RankNext
<1>3. ASSUME NEW l \in 1 .. r
      PROVE  /\ Nth(pat, l) \in 1 .. m /\ pat[Nth(pat, l)].op \in CaptureOps
             /\ pat[Nth(pat, l)].op # "()" => CloseOf(pat, Nth(pat, l)) <= m
  <2>1. PICK j \in 1 .. m : j = Nth(pat, l) /\ pat[j].op \in CaptureOps
    BY <1>1, <1>2, NthIn
  <2>2. pat[j].op # "()" => CloseOf(pat, j) \in j + 1 .. m
    BY <2>1, <1>1, IsClosed DEF CaptureOps
  <2> QED BY <2>1, <2>2
<1>4. OpenIn(CapsAt(pat, cut, m)) = {l \in 1 .. r : pat[Nth(pat, l)].op = "(" /\ CloseOf(pat, Nth(pat, l)) > m}
  BY <1>1, <1>2, CapsAre
<1>5. ASSUME NEW l \in 1 .. r, pat[Nth(pat, l)].op = "(", CloseOf(pat, Nth(pat, l)) > m PROVE FALSE
  <2>1. PICK j \in 1 .. m : j = Nth(pat, l) /\ pat[j].op = "("
    BY <1>1, <1>2, <1>5, NthIn
  <2>2. CloseOf(pat, j) \in j + 1 .. m
    BY <2>1, <1>1, IsClosed
  <2> QED BY <2>1, <2>2, <1>5
<1>6. \A l \in 1 .. r : CaptureAt(pat, cut, m, l) =
        [init |-> cut[Nth(pat, l)],
         len  |-> IF pat[Nth(pat, l)].op = "()" THEN Position ELSE cut[CloseOf(pat, Nth(pat, l))] - cut[Nth(pat, l)]]
  BY Zenon, <1>3 DEF CaptureAt
<1>7. CapsAt(pat, cut, m) = CapturedOf(pat, cut)
  BY Zenon, <1>2, <1>6 DEF CapsAt, CapturedOf
<1> QED BY <1>1, <1>4, <1>5, <1>7

-----------------------------------------------------------------------------
(* What the matcher has tried, and what it has still to try.                 *)

Repeats(sub, c, from, to) ==
  c.len # Position /\ SubSeq(sub, from, to - 1) = SubSeq(sub, c.init, c.init + c.len - 1)
MeansOf(sub, pat, i, from, to, cut) ==
  CASE pat[i].op \in {"(", "()", ")"} -> to = from
    [] pat[i].op = "$"  -> to = from /\ from = Len(sub) + 1
    [] pat[i].op = "^"  -> to = from /\ from = 1 /\ i = 1
    [] pat[i].op = "%f" -> to = from /\ Entry(sub, from, pat[i].set) /\ ~(from > 1 /\ Entry(sub, from - 1, pat[i].set))
    [] pat[i].op = "%b" -> /\ to - from >= 2 /\ sub[from] = "a" /\ Surplus(sub, from, to - 1, "a", "b") = 0
                           /\ \A j \in from .. to - 2 : Surplus(sub, from, j, "a", "b") > 0
    [] pat[i].op = "%1" -> Repeats(sub, CapturedOf(pat, cut)[1], from, to)
    [] pat[i].op = "set" -> /\ \A j \in from .. to - 1 : sub[j] \in pat[i].set
                            /\ to - from \in (CASE pat[i].rep = "1" -> {1} [] pat[i].rep = "?" -> {0, 1}
                                                [] pat[i].rep = "+" -> 1 .. Len(sub) + 1 [] OTHER -> 0 .. Len(sub) + 1)
CutsOf(sub, pat, from) ==
  {cut \in [0 .. Len(pat) -> from .. Len(sub) + 1] :
     cut[0] = from /\ \A i \in 1 .. Len(pat) : cut[i - 1] <= cut[i] /\ MeansOf(sub, pat, i, cut[i - 1], cut[i], cut)}

\* An activation waits, of a part that was matched from `from' to `to'.
WaitFits(sub, pat, from, to, c) ==
  \/ /\ c.kind = "max" /\ pat[c.p].op = "set" /\ pat[c.p].rep \in {"*", "+"}
     /\ c.s = from + (IF pat[c.p].rep = "+" THEN 1 ELSE 0) /\ c.s + c.n < to
  \/ c.kind = "min" /\ c.n = 0 /\ pat[c.p].op = "set" /\ pat[c.p].rep = "?" /\ c.s = from /\ to = c.s + 1
  \/ /\ c.kind = "min" /\ c.n = 1 /\ pat[c.p].op = "set" /\ pat[c.p].rep = "-" /\ c.s = to
     /\ Entry(sub, to, pat[c.p].set)
  \/ c.kind = "start" /\ pat[c.p].op \in CaptureOps
  \/ /\ c.kind = "end" /\ pat[c.p].op = ")" /\ c.n \in 1 .. Rank(pat, c.p - 1)
     /\ pat[Nth(pat, c.n)].op = "(" /\ CloseOf(pat, Nth(pat, c.n)) = c.p
\* Where its part may still end.
Untried(c, to) ==
  \/ c.kind = "max" /\ to <= c.s + c.n
  \/ c.kind = "min" /\ c.n = 0 /\ to = c.s
  \/ c.kind = "min" /\ c.n = 1 /\ to > c.s
LeftTo(waits, cut, b) ==
  \E k \in 1 .. Len(waits) : Agree(b, cut, waits[k].p - 1) /\ Untried(waits[k], b[waits[k].p])

\* The first i parts are matched, with these captures, and these activations wait.
Base(sub, pat, lo, cut, i, caps, waits) ==
  /\ i \in 0 .. Len(pat) /\ lo \in Nat /\ cut \in [0 .. Len(pat) -> lo .. Len(sub) + 1] /\ cut[0] = lo
  /\ \A k \in 1 .. i : cut[k - 1] <= cut[k] /\ MeansOf(sub, pat, k, cut[k - 1], cut[k], cut)
  /\ caps = CapsAt(pat, cut, i)
  /\ pat # <<>> /\ pat[1].op = "^" => i >= 1
  /\ waits \in Seq(Waits)
  /\ \A k \in 1 .. Len(waits) :
       waits[k].p \in 1 .. i /\ WaitFits(sub, pat, cut[waits[k].p - 1], cut[waits[k].p], waits[k])
  /\ \A k \in 1 .. Len(waits) : \A j \in 1 .. k - 1 : waits[k].p < waits[j].p
Bounded(pat, i, waits) ==
  \A j \in 1 .. i : pat[j].op \in {"(", "()", ")"} => \E k \in 1 .. Len(waits) : waits[k].p = j
\* The matcher called at lo has come here, and every match is one that it goes on to, or that is
\* left to an activation that waits.
Walk(sub, pat, lo, w, at, q, caps, waits) ==
  /\ w \in {"on", "back", "found", "none"} /\ (w = "none" => waits = <<>>)
  /\ \E cut : \E i \in 0 .. Len(pat) :
       /\ Base(sub, pat, lo, cut, i, caps, waits) /\ Bounded(pat, i, waits)
       /\ w \in {"on", "found"} => at = cut[i] /\ q = i + 1
       /\ w = "found" => i = Len(pat)
       /\ \A b \in CutsOf(sub, pat, lo) : (w \in {"on", "found"} /\ Agree(b, cut, i)) \/ LeftTo(waits, cut, b)

LEMMA AgreeLess ==
  ASSUME NEW a, NEW b, NEW i \in Nat, Agree(a, b, i), NEW j \in Nat, j <= i
  PROVE  Agree(a, b, j) /\ Agree(b, a, j) /\ a[j] = b[j]
BY DEF Agree

\* What a part means depends on the cuts before it.
LEMMA MeansAgree ==
  ASSUME NEW sub, NEW pat, Usable(pat), NEW i \in 1 .. Len(pat), NEW a, NEW b, Agree(a, b, i - 1), NEW from, NEW to,
         MeansOf(sub, pat, i, from, to, a)
  PROVE  MeansOf(sub, pat, i, from, to, b)
<1>1. PICK m \in Nat : m = Len(pat) /\ i \in 1 .. m
  BY DEF Usable
<1>2. CASE pat[i].op = "%1"
  <2>1. CapturedOf(pat, a)[1] = CapturedOf(pat, b)[1]
    <3>1. PICK h : h = Nth(pat, 1)
      OBVIOUS
    <3>2. /\ 1 \in 1 .. Rank(pat, i - 1) /\ h \in 1 .. i - 1
          /\ pat[h].op = "()" \/ (pat[h].op = "(" /\ CloseOf(pat, h) \in 1 .. i - 1)
      BY <3>1, <1>1, <1>2, FirstClosed
    <3>3. 1 \in 1 .. Cardinality(BeginsOf(pat))
      <4>1. i - 1 \in Nat /\ m \in Nat /\ i - 1 <= m /\ m <= Len(pat)
        BY <1>1
      <4>2. Rank(pat, i - 1) <= Rank(pat, m) /\ Rank(pat, i - 1) \in Nat /\ Rank(pat, m) \in Nat
        BY <4>1, RankGrows
      <4>3. Cardinality(BeginsOf(pat)) = Rank(pat, m)
        BY <1>1, RankNext
      <4> QED BY <4>2, <4>3, <3>2
    <3>4. \A c : c \in 1 .. i - 1 => a[c] = b[c]
      BY <1>1 DEF Agree
    <3>5. a[h] = b[h] /\ (pat[h].op # "()" => a[CloseOf(pat, h)] = b[CloseOf(pat, h)])
      BY <3>2, <3>4
    <3>6. \A c : CapturedOf(pat, c)[1] =
            [init |-> c[h], len |-> IF pat[h].op = "()" THEN Position ELSE c[CloseOf(pat, h)] - c[h]]
      BY <3>1, <3>3 DEF CapturedOf
    <3>7. PICK c : c = CloseOf(pat, h)
      OBVIOUS
    <3>8. (IF pat[h].op = "()" THEN Position ELSE a[c] - a[h]) = (IF pat[h].op = "()" THEN Position ELSE b[c] - b[h])
      BY <3>5, <3>7
    <3>9. /\ CapturedOf(pat, a)[1] = [init |-> a[h], len |-> IF pat[h].op = "()" THEN Position ELSE a[c] - a[h]]
          /\ CapturedOf(pat, b)[1] = [init |-> b[h], len |-> IF pat[h].op = "()" THEN Position ELSE b[c] - b[h]]
      BY Zenon, <3>6, <3>7
    <3>10. PICK la, lb : /\ la = IF pat[h].op = "()" THEN Position ELSE a[c] - a[h]
                        /\ lb = IF pat[h].op = "()" THEN Position ELSE b[c] - b[h]
      OBVIOUS
    <3>11. a[h] = b[h] /\ la = lb
      BY <3>5, <3>8, <3>10
    <3>12. [init |-> a[h], len |-> la] = [init |-> b[h], len |-> lb]
      BY <3>11
    <3>13. CapturedOf(pat, a)[1] = [init |-> a[h], len |-> la] /\ CapturedOf(pat, b)[1] = [init |-> b[h], len |-> lb]
      BY Zenon, <3>9, <3>10
    <3> QED BY Zenon, <3>12, <3>13
  <2> QED BY <2>1, <1>2 DEF MeansOf
<1>3. CASE pat[i].op # "%1"
  <2>1. pat[i].op \in Ops \ {"%1"}
    BY <1>1, <1>3 DEF Usable, Shape
  <2> QED BY <2>1 DEF MeansOf, Ops
<1> QED BY <1>2, <1>3

LEMMA BaseRises ==
  ASSUME NEW sub, NEW pat, NEW lo, NEW cut, NEW i, NEW caps, NEW waits, Base(sub, pat, lo, cut, i, caps, waits),
         Len(sub) \in Nat, Len(pat) \in Nat
  PROVE  Rising(cut, i) /\ \A k \in 0 .. Len(pat) : cut[k] \in Nat /\ lo <= cut[k] /\ cut[k] <= Len(sub) + 1
<1>1. \A k \in 0 .. Len(pat) : cut[k] \in lo .. Len(sub) + 1 /\ lo \in Nat
  BY DEF Base
<1>2. \A k \in 0 .. Len(pat) : cut[k] \in Nat /\ lo <= cut[k] /\ cut[k] <= Len(sub) + 1
  BY <1>1
<1>3. i \in 0 .. Len(pat) /\ \A k \in 1 .. i : cut[k - 1] <= cut[k]
  BY DEF Base
<1>4. \A k \in 0 .. i : k \in 0 .. Len(pat)
  BY <1>3
<1> QED BY <1>2, <1>3, <1>4 DEF Rising

\* The next part is matched.
Recut(cut, q, to) == [cut EXCEPT ![q] = to]

\* Where the part may end.
Fitting(sub, pat, cut, q) == {to \in cut[q - 1] .. Len(sub) + 1 : MeansOf(sub, pat, q, cut[q - 1], to, cut)}
Before(sub, pat, lo, cut, q, caps, waits) == Base(sub, pat, lo, cut, q - 1, caps, waits)
Advanced(sub, pat, lo, cut, q, to, new, waits) ==
  /\ Base(sub, pat, lo, new, q, CapsAt(pat, new, q), waits)
  /\ Agree(cut, new, q - 1) /\ new[q] = to /\ new[q - 1] = cut[q - 1]
  /\ \A k \in 1 .. Len(waits) : waits[k].p \in 1 .. q - 1
  /\ \A b : LeftTo(waits, cut, b) => LeftTo(waits, new, b)

LEMMA BaseCut ==
  ASSUME NEW sub, NEW pat, Usable(pat), Len(sub) \in Nat, NEW lo, NEW cut, NEW q \in 1 .. Len(pat), NEW caps, NEW waits,
         Before(sub, pat, lo, cut, q, caps, waits), NEW to \in Fitting(sub, pat, cut, q)
  PROVE  Advanced(sub, pat, lo, cut, q, to, Recut(cut, q, to), waits)
<1>1. PICK new : new = Recut(cut, q, to)
  OBVIOUS
<1>2. Base(sub, pat, lo, cut, q - 1, caps, waits)
  BY DEF Before
<1>3. to \in cut[q - 1] .. Len(sub) + 1 /\ MeansOf(sub, pat, q, cut[q - 1], to, cut)
  BY DEF Fitting
<1>4. PICK m \in Nat, e \in Nat : m = Len(pat) /\ e = Len(sub) + 1 /\ q \in 1 .. m
  <2>1. Len(pat) \in Nat /\ Len(sub) + 1 \in Nat
    BY DEF Usable
  <2> QED BY <2>1
<1>5. lo \in Nat /\ cut \in [0 .. m -> lo .. e] /\ cut[0] = lo /\ waits \in Seq(Waits)
  BY <1>4, <1>2 DEF Base
<1>6. PICK h \in Nat : h = q - 1 /\ q = h + 1 /\ h \in 0 .. m /\ q \in 0 .. m
  <2>1. q - 1 \in Nat /\ q = (q - 1) + 1 /\ q - 1 \in 0 .. m /\ q \in 0 .. m
    BY <1>4
  <2> QED BY <2>1
<1>7. to \in lo .. e /\ to >= cut[h] /\ cut[h] \in Nat
  <2>1. cut[h] \in lo .. e
    BY <1>5, <1>6
  <2> QED BY <2>1, <1>4, <1>5, <1>6, <1>3
<1>8. new \in [0 .. m -> lo .. e] /\ new[q] = to /\ \A k \in 0 .. m : k # q => new[k] = cut[k]
  BY <1>5, <1>6, <1>7, <1>1 DEF Recut
<1>9. Agree(cut, new, h)
  <2>1. \A k \in 0 .. h : k \in 0 .. m /\ k # q
    BY <1>4, <1>6
  <2> QED BY <2>1, <1>8 DEF Agree
<1>10. ASSUME NEW k \in 1 .. q
      PROVE  new[k - 1] <= new[k] /\ MeansOf(sub, pat, k, new[k - 1], new[k], new)
  <2>1. k \in 1 .. m /\ k - 1 \in Nat /\ k - 1 <= h /\ new[k - 1] = cut[k - 1]
    BY <1>4, <1>6, <1>8
  <2>2. Agree(cut, new, k - 1)
    BY <2>1, <1>6, <1>9, AgreeLess
  <2>3. CASE k = q
    <3>1. MeansOf(sub, pat, k, new[k - 1], new[k], cut) /\ new[k - 1] <= new[k]
      BY <2>1, <2>3, <1>6, <1>7, <1>8, <1>3
    <3> QED BY <3>1, <2>1, <2>2, <1>4, MeansAgree
  <2>4. CASE k # q
    <3>1. k \in 1 .. h /\ new[k] = cut[k]
      BY <2>4, <1>4, <1>6, <1>8
    <3>2. cut[k - 1] <= cut[k] /\ MeansOf(sub, pat, k, cut[k - 1], cut[k], cut)
      BY <3>1, <1>6, <1>2 DEF Base
    <3>3. MeansOf(sub, pat, k, new[k - 1], new[k], cut)
      BY Zenon, <3>1, <3>2, <2>1
    <3> QED BY <3>1, <3>2, <3>3, <2>1, <2>2, <1>4, MeansAgree
  <2> QED BY <2>3, <2>4
<1>11. ASSUME NEW k \in 1 .. Len(waits)
      PROVE  /\ waits[k].p \in 1 .. h /\ waits[k].p \in 1 .. q /\ waits[k].p - 1 \in Nat /\ waits[k].p - 1 <= h
             /\ WaitFits(sub, pat, new[waits[k].p - 1], new[waits[k].p], waits[k])
  <2>1. PICK o \in 1 .. h : o = waits[k].p /\ WaitFits(sub, pat, cut[o - 1], cut[o], waits[k])
    <3>1. waits[k].p \in 1 .. h /\ WaitFits(sub, pat, cut[waits[k].p - 1], cut[waits[k].p], waits[k])
      BY <1>6, <1>2 DEF Base
    <3> QED BY <3>1
  <2>2. o \in 0 .. m /\ o # q /\ o - 1 \in 0 .. m /\ o - 1 # q
    BY <1>4, <1>6
  <2>3. new[o] = cut[o] /\ new[o - 1] = cut[o - 1]
    BY <2>2, <1>8
  <2>4. WaitFits(sub, pat, new[o - 1], new[o], waits[k])
    BY Zenon, <2>1, <2>3
  <2> QED BY <2>1, <2>4, <1>6
<1>12. ASSUME NEW b, LeftTo(waits, cut, b) PROVE LeftTo(waits, new, b)
  <2>1. PICK k \in 1 .. Len(waits) : Agree(b, cut, waits[k].p - 1) /\ Untried(waits[k], b[waits[k].p])
    BY <1>12 DEF LeftTo
  <2>2. Agree(cut, new, waits[k].p - 1)
    BY <1>6, <1>9, <1>11, AgreeLess
  <2>3. Agree(b, new, waits[k].p - 1)
    BY <2>1, <2>2 DEF Agree
  <2> QED BY <2>1, <2>3 DEF LeftTo
<1>13. new[0] = lo
  BY <1>4, <1>5, <1>8
<1>14. \A k \in 1 .. Len(waits) : \A j \in 1 .. k - 1 : waits[k].p < waits[j].p
  BY <1>2 DEF Base
<1>15. q >= 1 /\ q \in 0 .. Len(pat)
  BY <1>4
<1>16. new \in [0 .. Len(pat) -> lo .. Len(sub) + 1]
  BY <1>4, <1>8
<1>17. Base(sub, pat, lo, new, q, CapsAt(pat, new, q), waits)
  BY Zenon, <1>5, <1>10, <1>11, <1>13, <1>14, <1>15, <1>16 DEF Base
<1>18. new[h] = cut[h]
  BY <1>6, <1>8
<1> QED BY Zenon, <1>6, <1>8, <1>9, <1>11, <1>12, <1>17, <1>18, <1>1 DEF Advanced

LEMMA Pushed ==
  ASSUME NEW S, NEW waits \in Seq(S), NEW c \in S, NEW new, new = <<c>> \o waits
  PROVE  /\ new \in Seq(S) /\ Len(waits) \in Nat /\ Len(new) = Len(waits) + 1 /\ new[1] = c
         /\ \A k \in 1 .. Len(waits) : new[k + 1] = waits[k]
         /\ Head(new) = c /\ Tail(new) = waits
OBVIOUS

LEMMA WalkPopped ==
  ASSUME NEW S, NEW waits \in Seq(S), waits # <<>>
  PROVE  /\ Head(waits) \in S /\ Head(waits) = waits[1] /\ Tail(waits) \in Seq(S)
         /\ Len(waits) \in Nat /\ Len(waits) >= 1 /\ Len(Tail(waits)) \in Nat /\ Len(waits) = Len(Tail(waits)) + 1
         /\ \A k \in 1 .. Len(Tail(waits)) : Tail(waits)[k] = waits[k + 1]
OBVIOUS

\* The part just matched leaves an activation that waits.
LEMMA BasePush ==
  ASSUME NEW sub, NEW pat, NEW lo, NEW cut, NEW q \in Nat, q >= 1, NEW caps, NEW waits,
         Base(sub, pat, lo, cut, q, caps, waits),
         \A k \in 1 .. Len(waits) : waits[k].p \in 1 .. q - 1,
         NEW c \in Waits, c.p = q, WaitFits(sub, pat, cut[q - 1], cut[q], c), NEW new, new = <<c>> \o waits
  PROVE  /\ Base(sub, pat, lo, cut, q, caps, new)
         /\ \A b : LeftTo(waits, cut, b) => LeftTo(new, cut, b)
         /\ \A b : Agree(b, cut, q - 1) /\ Untried(c, b[q]) => LeftTo(new, cut, b)
         /\ Bounded(pat, q - 1, waits) => Bounded(pat, q, new)
<1>1. waits \in Seq(Waits)
  BY DEF Base
<1>2. PICK n \in Nat : n = Len(waits)
  BY <1>1
<1>3. /\ new \in Seq(Waits) /\ Len(new) = n + 1 /\ new[1] = c
      /\ \A k \in 1 .. n : new[k + 1] = waits[k]
  BY ONLY <1>1, <1>2, new = <<c>> \o waits, c \in Waits, Pushed
<1>4. \A k \in 1 .. n + 1 : k # 1 => k - 1 \in 1 .. n /\ (k - 1) + 1 = k
  BY <1>2
<1>5. ASSUME NEW k \in 1 .. n + 1 PROVE (k = 1 /\ new[k] = c) \/ (k - 1 \in 1 .. n /\ new[k] = waits[k - 1])
  <2>1. CASE k = 1
    BY <2>1, <1>3
  <2>2. CASE k # 1
    <3>1. k - 1 \in 1 .. n /\ (k - 1) + 1 = k
      BY <1>4, <2>2
    <3>2. new[(k - 1) + 1] = waits[k - 1]
      BY <3>1, <1>3
    <3> QED BY <3>1, <3>2
  <2> QED BY <2>1, <2>2
<1>6. ASSUME NEW k \in 1 .. Len(new)
      PROVE  new[k].p \in 1 .. q /\ WaitFits(sub, pat, cut[new[k].p - 1], cut[new[k].p], new[k])
  <2>1. (k = 1 /\ new[k] = c) \/ (k - 1 \in 1 .. n /\ new[k] = waits[k - 1])
    BY <1>3, <1>5
  <2>2. CASE new[k] = c
    <3>1. c.p \in 1 .. q
      OBVIOUS
    <3> QED BY Zenon, <2>2, <3>1
  <2>3. CASE k - 1 \in 1 .. n /\ new[k] = waits[k - 1]
    <3>1. waits[k - 1].p \in 1 .. q /\ WaitFits(sub, pat, cut[waits[k - 1].p - 1], cut[waits[k - 1].p], waits[k - 1])
      BY <2>3, <1>2 DEF Base
    <3> QED BY Zenon, <2>3, <3>1
  <2> QED BY <2>1, <2>2, <2>3
<1>7. ASSUME NEW k \in 1 .. Len(new), NEW j \in 1 .. k - 1 PROVE new[k].p < new[j].p
  <2>1. k \in 1 .. n + 1 /\ j \in 1 .. n + 1 /\ k # 1 /\ k - 1 \in 1 .. n /\ new[k] = waits[k - 1]
    <3>1. k \in 1 .. n + 1 /\ j \in 1 .. n + 1 /\ k # 1
      BY <1>3
    <3> QED BY <3>1, <1>5
  <2>2. CASE j = 1
    <3>1. waits[k - 1].p \in 1 .. q - 1 /\ new[j].p = q
      BY <2>1, <2>2, <1>2, <1>3
    <3> QED BY <3>1, <2>1
  <2>3. CASE j # 1
    <3>1. j - 1 \in 1 .. (k - 1) - 1 /\ new[j] = waits[j - 1]
      BY <2>1, <2>3, <1>5
    <3>2. waits[k - 1].p < waits[j - 1].p
      BY <3>1, <2>1, <1>2 DEF Base
    <3> QED BY <3>1, <3>2, <2>1
  <2> QED BY <2>2, <2>3
<1>8. Base(sub, pat, lo, cut, q, caps, new)
  BY Zenon, <1>3, <1>6, <1>7 DEF Base
<1>9. ASSUME NEW b, LeftTo(waits, cut, b) PROVE LeftTo(new, cut, b)
  <2>1. PICK k \in 1 .. n : Agree(b, cut, waits[k].p - 1) /\ Untried(waits[k], b[waits[k].p])
    BY <1>9, <1>2 DEF LeftTo
  <2>2. k + 1 \in 1 .. Len(new) /\ new[k + 1] = waits[k]
    BY <1>3
  <2>3. Agree(b, cut, new[k + 1].p - 1) /\ Untried(new[k + 1], b[new[k + 1].p])
    BY Zenon, <2>1, <2>2
  <2> QED BY <2>2, <2>3 DEF LeftTo
<1>10. ASSUME NEW b, Agree(b, cut, q - 1) /\ Untried(c, b[q]) PROVE LeftTo(new, cut, b)
  <2>1. 1 \in 1 .. Len(new) /\ new[1].p = q
    BY <1>3
  <2>2. Agree(b, cut, new[1].p - 1) /\ Untried(new[1], b[new[1].p])
    BY Zenon, <2>1, <1>3, <1>10
  <2> QED BY <2>1, <2>2 DEF LeftTo
<1>11. ASSUME Bounded(pat, q - 1, waits) PROVE Bounded(pat, q, new)
  <2> SUFFICES ASSUME NEW j \in 1 .. q, pat[j].op \in {"(", "()", ")"}
               PROVE  \E k \in 1 .. Len(new) : new[k].p = j
    BY DEF Bounded
  <2>1. CASE j = q
    <3>1. 1 \in 1 .. Len(new) /\ new[1].p = j
      BY <2>1, <1>3
    <3> QED BY <3>1
  <2>2. CASE j # q
    <3>1. j \in 1 .. q - 1
      BY <2>2
    <3>2. PICK k \in 1 .. n : waits[k].p = j
      BY <3>1, <1>11, <1>2 DEF Bounded
    <3>3. k + 1 \in 1 .. Len(new) /\ new[k + 1].p = j
      BY <3>2, <1>3
    <3> QED BY <3>3
  <2> QED BY <2>1, <2>2
<1> QED BY Zenon, <1>8, <1>9, <1>10, <1>11

LEMMA MarkedOn ==
  ASSUME NEW pat, NEW q \in Nat, q >= 1, NEW waits, Bounded(pat, q - 1, waits), pat[q].op \notin {"(", "()", ")"}
  PROVE  Bounded(pat, q, waits)
<1>1. \A j \in 1 .. q : j # q => j \in 1 .. q - 1
  OBVIOUS
<1> QED BY <1>1 DEF Bounded

\* Without a bound of a capture in between, the captures stay.
LEMMA CapsKept ==
  ASSUME NEW pat, Usable(pat), NEW i \in 0 .. Len(pat), NEW q \in 0 .. i, NEW cut,
         \A j \in q + 1 .. i : pat[j].op \notin {"(", "()", ")"}
  PROVE  CapsAt(pat, cut, i) = CapsAt(pat, cut, q)
<1>1. PICK m \in Nat : m = Len(pat) /\ i <= m /\ i \in Nat /\ q \in Nat /\ q <= i
  <2>1. Len(pat) \in Nat
    BY DEF Usable
  <2> QED BY <2>1
<1> DEFINE T == {d \in Nat : q + d <= i => CapsAt(pat, cut, q + d) = CapsAt(pat, cut, q)}
<1>2. 0 \in T
  BY <1>1
<1>3. ASSUME NEW d \in Nat, d \in T PROVE d + 1 \in T
  <2> SUFFICES ASSUME q + (d + 1) <= i PROVE CapsAt(pat, cut, q + (d + 1)) = CapsAt(pat, cut, q)
    OBVIOUS
  <2>1. PICK h \in Nat : h = q + d + 1 /\ h - 1 = q + d /\ h = q + (d + 1) /\ h \in 1 .. m /\ h \in q + 1 .. i
    <3>1. q + d + 1 \in Nat /\ (q + d + 1) - 1 = q + d /\ q + d + 1 = q + (d + 1) /\ q + d + 1 \in 1 .. m /\ q + d + 1 \in q + 1 .. i
      BY <1>1
    <3> QED BY <3>1
  <2>2. Agree(cut, cut, h - 1)
    BY DEF Agree
  <2>3. CapsAt(pat, cut, h) = CapsAt(pat, cut, h - 1)
    <3>1. h \in 1 .. Len(pat) /\ pat[h].op \notin {"(", "()", ")"}
      BY <2>1, <1>1
    <3> QED BY Zenon, <3>1, <2>2, CapsStay
  <2>4. CapsAt(pat, cut, q + d) = CapsAt(pat, cut, q)
    BY <1>1, <1>3
  <2> QED BY Zenon, <2>1, <2>3, <2>4
<1>4. PICK d \in Nat : d = i - q /\ q + d = i
  <2>1. i - q \in Nat /\ q + (i - q) = i
    BY <1>1
  <2> QED BY <2>1
<1>5. d \in T
  <2> HIDE DEF T
  <2>1. d \in 0 .. d /\ \A h \in 0 .. d - 1 : h \in T => h + 1 \in T
    BY <1>3, <1>4
  <2> QED BY <2>1, <1>2, Induct
<1> QED BY <1>1, <1>4, <1>5

\* What an activation undoes when it gets its turn.
LEMMA Undoes ==
  ASSUME NEW sub, NEW pat, Usable(pat), NEW q \in 1 .. Len(pat), NEW cut, Rising(cut, q),
         NEW c, c.p = q, NEW from, NEW to, WaitFits(sub, pat, from, to, c)
  PROVE  UndoneIn(CapsAt(pat, cut, q), c) = CapsAt(pat, cut, q - 1)
<1>1. CASE c.kind \in {"max", "min"}
  <2>1. pat[q].op = "set"
    BY <1>1 DEF WaitFits
  <2>2. Agree(cut, cut, q - 1)
    BY DEF Agree
  <2>3. CapsAt(pat, cut, q) = CapsAt(pat, cut, q - 1)
    BY <2>1, <2>2, CapsStay
  <2>4. UndoneIn(CapsAt(pat, cut, q), c) = CapsAt(pat, cut, q)
    BY <1>1 DEF UndoneIn
  <2> QED BY <2>3, <2>4
<1>2. CASE c.kind = "start"
  <2>1. pat[q].op \in CaptureOps
    BY <1>2 DEF WaitFits
  <2>2. PICK what : what = IF pat[q].op = "()" THEN Position ELSE Unfinished
    OBVIOUS
  <2>3. SubSeq(CapsAt(pat, cut, q), 1, Len(CapsAt(pat, cut, q)) - 1) = CapsAt(pat, cut, q - 1)
    BY <2>1, <2>2, CapsStart
  <2> QED BY <2>3, <1>2 DEF UndoneIn
<1>3. CASE c.kind = "end"
  <2>1. /\ pat[q].op = ")" /\ c.n \in 1 .. Rank(pat, q - 1)
        /\ pat[Nth(pat, c.n)].op = "(" /\ CloseOf(pat, Nth(pat, c.n)) = q
    BY <1>3 DEF WaitFits
  <2>2. PICK l \in 1 .. Rank(pat, q - 1) : Shut(pat, cut, q, l)
    BY <2>1, CapsEnd
  <2>3. PICK b \in 1 .. q - 1 : \A h \in 1 .. Len(pat) : pat[h].op = "(" /\ h # b => CloseOf(pat, h) # q
    BY <2>1, ClosesOne
  <2>4. Len(pat) \in Nat
    BY DEF Usable
  <2>5. q - 1 \in 0 .. Len(pat)
    BY <2>4
  <2>6. /\ Nth(pat, l) \in 1 .. q - 1 /\ Rank(pat, Nth(pat, l)) = l
        /\ Nth(pat, c.n) \in 1 .. q - 1 /\ Rank(pat, Nth(pat, c.n)) = c.n
    BY <2>1, <2>5, NthIn
  <2>7. Nth(pat, l) \in 1 .. Len(pat) /\ Nth(pat, c.n) \in 1 .. Len(pat)
    BY <2>6, <2>4
  <2>8. Nth(pat, l) = b /\ Nth(pat, c.n) = b
    BY <2>1, <2>2, <2>3, <2>7 DEF Shut
  <2>9. l = c.n
    BY <2>6, <2>8
  <2>10. UndoneIn(CapsAt(pat, cut, q), c) = [CapsAt(pat, cut, q) EXCEPT ![c.n].len = Unfinished]
    BY <1>3 DEF UndoneIn
  <2> QED BY Zenon, <2>2, <2>9, <2>10 DEF Shut
<1> QED BY <1>1, <1>2, <1>3 DEF WaitFits

\* The innermost activation gets its turn.
LEMMA Resume ==
  ASSUME NEW sub, NEW pat, Usable(pat), Len(sub) \in Nat, NEW lo, NEW cut, NEW i \in 0 .. Len(pat), NEW caps, NEW waits,
         Base(sub, pat, lo, cut, i, caps, waits), Bounded(pat, i, waits), waits # <<>>, NEW c, c = Head(waits)
  PROVE  /\ c \in Waits /\ c.p \in 1 .. i /\ c.p \in 1 .. Len(pat)
         /\ Base(sub, pat, lo, cut, c.p - 1, UndoneIn(caps, c), Tail(waits)) /\ Bounded(pat, c.p - 1, Tail(waits))
         /\ WaitFits(sub, pat, cut[c.p - 1], cut[c.p], c) /\ cut[c.p - 1] <= cut[c.p]
         /\ MeansOf(sub, pat, c.p, cut[c.p - 1], cut[c.p], cut)
         /\ \A b : LeftTo(waits, cut, b) => (Agree(b, cut, c.p - 1) /\ Untried(c, b[c.p])) \/ LeftTo(Tail(waits), cut, b)
<1>1. waits \in Seq(Waits)
  BY DEF Base
<1>2. PICK m \in Nat : m = Len(pat) /\ i \in 0 .. m
  <2>1. Len(pat) \in Nat
    BY DEF Usable
  <2> QED BY <2>1
<1>3. PICK rest \in Seq(Waits) : rest = Tail(waits)
  BY <1>1, WalkPopped
<1>4. PICK n \in Nat : n = Len(rest)
  BY <1>3
<1>5. c \in Waits /\ waits[1] = c /\ Len(waits) = n + 1 /\ \A k \in 1 .. n : rest[k] = waits[k + 1]
  BY ONLY <1>1, <1>3, <1>4, waits # <<>>, c = Head(waits), WalkPopped
<1>6. 1 \in 1 .. Len(waits) /\ \A k \in 1 .. n : k + 1 \in 1 .. Len(waits)
  BY <1>5
<1>7. PICK q \in 1 .. i : q = c.p /\ WaitFits(sub, pat, cut[q - 1], cut[q], c)
  <2>1. waits[1].p \in 1 .. i /\ WaitFits(sub, pat, cut[waits[1].p - 1], cut[waits[1].p], waits[1])
    BY <1>6 DEF Base
  <2>2. c.p \in 1 .. i /\ WaitFits(sub, pat, cut[c.p - 1], cut[c.p], c)
    BY Zenon, <2>1, <1>5
  <2> QED BY <2>2
<1>8. q \in 1 .. m /\ q - 1 \in 0 .. m /\ q - 1 \in Nat
  BY <1>2
<1>9. ASSUME NEW k \in 1 .. n PROVE rest[k].p \in 1 .. q - 1
  <2>1. k + 1 \in 1 .. Len(waits) /\ 1 \in 1 .. (k + 1) - 1 /\ rest[k] = waits[k + 1]
    BY <1>5, <1>6
  <2>2. waits[k + 1].p < waits[1].p /\ waits[k + 1].p \in 1 .. i
    BY <2>1 DEF Base
  <2> QED BY <2>1, <2>2, <1>5, <1>7
<1>10. Rising(cut, i) /\ \A k \in 0 .. m : cut[k] \in Nat
  BY <1>2, BaseRises
<1>11. Rising(cut, q)
  <2>1. \A k : (k \in 0 .. q => k \in 0 .. i) /\ (k \in 1 .. q => k \in 1 .. i)
    BY <1>2
  <2> QED BY <2>1, <1>10 DEF Rising
<1>12. UndoneIn(caps, c) = CapsAt(pat, cut, q - 1)
  <2>1. caps = CapsAt(pat, cut, i)
    BY DEF Base
  <2>2. ASSUME NEW j \in q + 1 .. i, pat[j].op \in {"(", "()", ")"} PROVE FALSE
    <3>1. j \in 1 .. i /\ j > q
      BY <1>2
    <3>2. PICK k \in 1 .. Len(waits) : waits[k].p = j
      BY <2>2, <3>1 DEF Bounded
    <3>3. k # 1
      BY <3>1, <3>2, <1>5, <1>7
    <3>4. k - 1 \in 1 .. n /\ (k - 1) + 1 = k
      BY <3>3, <1>5
    <3>5. rest[k - 1] = waits[k] /\ rest[k - 1].p \in 1 .. q - 1
      BY <3>4, <1>5, <1>9
    <3> QED BY <3>1, <3>2, <3>5
  <2>3. q \in 0 .. i
    BY <1>2
  <2>4. \A j \in q + 1 .. i : pat[j].op \notin {"(", "()", ")"}
    BY <2>2
  <2>5. CapsAt(pat, cut, i) = CapsAt(pat, cut, q)
    BY <2>3, <2>4, CapsKept
  <2>6. UndoneIn(CapsAt(pat, cut, q), c) = CapsAt(pat, cut, q - 1)
    BY <1>2, <1>7, <1>8, <1>11, Undoes
  <2> QED BY Zenon, <2>1, <2>5, <2>6
<1>13. pat # <<>> /\ pat[1].op = "^" => q - 1 >= 1
  <2>1. pat[q].op # "^"
    BY <1>7 DEF WaitFits, CaptureOps
  <2> QED BY <2>1, <1>8
<1>14. Base(sub, pat, lo, cut, q - 1, UndoneIn(caps, c), rest)
  <2>1. lo \in Nat /\ cut \in [0 .. Len(pat) -> lo .. Len(sub) + 1] /\ cut[0] = lo
    BY DEF Base
  <2>2. \A k \in 1 .. q - 1 : k \in 1 .. i
    BY <1>2
  <2>3. \A k \in 1 .. q - 1 : cut[k - 1] <= cut[k] /\ MeansOf(sub, pat, k, cut[k - 1], cut[k], cut)
    BY <2>2 DEF Base
  <2>4. ASSUME NEW k \in 1 .. Len(rest)
        PROVE  rest[k].p \in 1 .. q - 1 /\ WaitFits(sub, pat, cut[rest[k].p - 1], cut[rest[k].p], rest[k])
    <3>1. k \in 1 .. n /\ k + 1 \in 1 .. Len(waits) /\ rest[k] = waits[k + 1]
      BY <1>4, <1>5, <1>6
    <3>2. WaitFits(sub, pat, cut[waits[k + 1].p - 1], cut[waits[k + 1].p], waits[k + 1])
      BY <3>1 DEF Base
    <3> QED BY Zenon, <3>1, <3>2, <1>9
  <2>5. ASSUME NEW k \in 1 .. Len(rest), NEW j \in 1 .. k - 1 PROVE rest[k].p < rest[j].p
    <3>1. k \in 1 .. n /\ j \in 1 .. n /\ k + 1 \in 1 .. Len(waits) /\ j + 1 \in 1 .. (k + 1) - 1
      BY <1>4, <1>6
    <3>2. waits[k + 1].p < waits[j + 1].p
      BY <3>1 DEF Base
    <3> QED BY Zenon, <3>1, <3>2, <1>5
  <2>6. q - 1 \in 0 .. Len(pat)
    BY <1>2, <1>8
  <2> QED BY Zenon, <2>1, <2>3, <2>4, <2>5, <2>6, <1>3, <1>12, <1>13 DEF Base
<1>15. Bounded(pat, q - 1, rest)
  <2> SUFFICES ASSUME NEW j \in 1 .. q - 1, pat[j].op \in {"(", "()", ")"}
               PROVE  \E k \in 1 .. Len(rest) : rest[k].p = j
    BY DEF Bounded
  <2>1. j \in 1 .. i /\ j # q
    BY <1>2
  <2>2. PICK k \in 1 .. Len(waits) : waits[k].p = j
    BY <2>1 DEF Bounded
  <2>3. k # 1
    BY <2>1, <2>2, <1>5, <1>7
  <2>4. k - 1 \in 1 .. n /\ (k - 1) + 1 = k
    BY <2>3, <1>5
  <2>5. rest[k - 1] = waits[k]
    BY <2>4, <1>5
  <2> QED BY <2>2, <2>4, <2>5, <1>4
<1>16. cut[q - 1] <= cut[q] /\ MeansOf(sub, pat, q, cut[q - 1], cut[q], cut)
  BY DEF Base
<1>17. ASSUME NEW b, LeftTo(waits, cut, b) PROVE (Agree(b, cut, q - 1) /\ Untried(c, b[q])) \/ LeftTo(rest, cut, b)
  <2>1. PICK k \in 1 .. Len(waits) : Agree(b, cut, waits[k].p - 1) /\ Untried(waits[k], b[waits[k].p])
    BY <1>17 DEF LeftTo
  <2>2. CASE k = 1
    <3>1. waits[k] = c /\ waits[k].p = q
      BY <2>2, <1>5, <1>7
    <3> QED BY Zenon, <2>1, <3>1
  <2>3. CASE k # 1
    <3>1. k - 1 \in 1 .. n /\ (k - 1) + 1 = k
      BY <2>3, <1>5
    <3>2. rest[k - 1] = waits[k]
      BY <3>1, <1>5
    <3>3. Agree(b, cut, rest[k - 1].p - 1) /\ Untried(rest[k - 1], b[rest[k - 1].p])
      BY Zenon, <2>1, <3>2
    <3> QED BY <3>1, <3>3, <1>4 DEF LeftTo
  <2> QED BY <2>2, <2>3
<1> QED BY Zenon, <1>2, <1>3, <1>5, <1>7, <1>8, <1>14, <1>15, <1>16, <1>17

-----------------------------------------------------------------------------
(* What a step of the matcher makes of a walk.                               *)

Walks(sub, pat, lo, x) == Walk(sub, pat, lo, x[1], x[2], x[3], x[4], x[5])
\* The part q is to be matched; every match gives it an end in `ends', or is left.
Faces(sub, pat, lo, cut, q, caps, waits, ends) ==
  /\ Before(sub, pat, lo, cut, q, caps, waits) /\ Bounded(pat, q - 1, waits)
  /\ \A b \in CutsOf(sub, pat, lo) : (Agree(b, cut, q - 1) /\ b[q] \in ends) \/ LeftTo(waits, cut, b)

LEMMA CutPart ==
  ASSUME NEW sub, NEW pat, Usable(pat), NEW lo \in Nat, Len(sub) \in Nat, NEW b \in CutsOf(sub, pat, lo),
         NEW q \in 1 .. Len(pat), NEW cut, Agree(b, cut, q - 1)
  PROVE  b[q] \in Fitting(sub, pat, cut, q) /\ b[q] \in Nat
<1>1. PICK m \in Nat, e \in Nat : m = Len(pat) /\ e = Len(sub) + 1 /\ q \in 1 .. m
  <2>1. Len(pat) \in Nat /\ Len(sub) + 1 \in Nat
    BY DEF Usable
  <2> QED BY <2>1
<1>2. b \in [0 .. m -> lo .. e] /\ b[q - 1] <= b[q] /\ MeansOf(sub, pat, q, b[q - 1], b[q], b)
  BY <1>1 DEF CutsOf
<1>3. q \in 0 .. m /\ q - 1 \in 0 .. m /\ q - 1 \in 0 .. q - 1
  BY <1>1
<1>4. b[q] \in lo .. e /\ b[q - 1] \in lo .. e
  BY <1>2, <1>3
<1>5. b[q] \in Nat /\ b[q - 1] \in Nat /\ b[q] <= e
  BY <1>4
<1>6. b[q - 1] = cut[q - 1]
  BY <1>3 DEF Agree
<1>7. MeansOf(sub, pat, q, b[q - 1], b[q], cut)
  BY <1>2, MeansAgree
<1>8. b[q] \in cut[q - 1] .. Len(sub) + 1
  BY <1>1, <1>2, <1>5, <1>6
<1>9. MeansOf(sub, pat, q, cut[q - 1], b[q], cut)
  BY Zenon, <1>6, <1>7
<1> QED BY Zenon, <1>5, <1>8, <1>9 DEF Fitting

\* The captures stay.
LEMMA KeepsCaps ==
  ASSUME NEW sub, NEW pat, Usable(pat), Len(sub) \in Nat, NEW lo, NEW cut, NEW q \in 1 .. Len(pat), NEW caps, NEW waits,
         Before(sub, pat, lo, cut, q, caps, waits), pat[q].op \notin {"(", "()", ")"}, NEW to \in Fitting(sub, pat, cut, q)
  PROVE  caps = CapsAt(pat, Recut(cut, q, to), q)
<1>1. Advanced(sub, pat, lo, cut, q, to, Recut(cut, q, to), waits)
  BY BaseCut
<1>2. Agree(cut, Recut(cut, q, to), q - 1)
  BY <1>1 DEF Advanced
<1>3. CapsAt(pat, Recut(cut, q, to), q) = CapsAt(pat, cut, q - 1)
  BY <1>2, CapsStay
<1>4. caps = CapsAt(pat, cut, q - 1)
  BY DEF Before, Base
<1> QED BY <1>3, <1>4

LEMMA ChainJoined ==
  ASSUME NEW sub, NEW pat, NEW lo, NEW cut, NEW i, NEW caps, NEW waits, Base(sub, pat, lo, cut, i, caps, waits)
  PROVE  <<>> \o waits = waits
<1>1. waits \in Seq(Waits)
  BY DEF Base
<1> QED BY <1>1

\* The matcher goes on behind the part, and nothing waits.
LEMMA Proceeds ==
  ASSUME NEW sub, NEW pat, Usable(pat), Len(sub) \in Nat, NEW lo, NEW cut, NEW q \in 1 .. Len(pat), NEW caps, NEW waits,
         NEW ends, Faces(sub, pat, lo, cut, q, caps, waits, ends), pat[q].op \notin {"(", "()", ")"},
         NEW to \in Fitting(sub, pat, cut, q), \A j \in ends : j \in Fitting(sub, pat, cut, q) => j = to
  PROVE  Walks(sub, pat, lo, Along(to, q, caps, waits)) /\ Walks(sub, pat, lo, Along(to, q, caps, <<>> \o waits))
<1>1. Base(sub, pat, lo, cut, q - 1, caps, waits) /\ Bounded(pat, q - 1, waits)
  BY DEF Faces, Before
<1>2. Before(sub, pat, lo, cut, q, caps, waits)
  BY DEF Faces
<1>3. PICK new : new = Recut(cut, q, to) /\ Advanced(sub, pat, lo, cut, q, to, new, waits)
  BY <1>2, BaseCut
<1>4. /\ Base(sub, pat, lo, new, q, CapsAt(pat, new, q), waits)
      /\ Agree(cut, new, q - 1) /\ new[q] = to
      /\ \A b : LeftTo(waits, cut, b) => LeftTo(waits, new, b)
  BY <1>3 DEF Advanced
<1>5. CapsAt(pat, new, q) = caps
  <2>1. CapsAt(pat, new, q) = CapsAt(pat, cut, q - 1)
    BY <1>4, CapsStay
  <2> QED BY <1>1, <2>1 DEF Base
<1>6. q \in Nat /\ q >= 1 /\ q \in 0 .. Len(pat) /\ lo \in Nat
  <2>1. Len(pat) \in Nat
    BY DEF Usable
  <2> QED BY <2>1, <1>1 DEF Base
<1>7. Bounded(pat, q, waits)
  BY <1>1, <1>6, MarkedOn
<1>8. ASSUME NEW b \in CutsOf(sub, pat, lo) PROVE Agree(b, new, q) \/ LeftTo(waits, new, b)
  <2>1. CASE Agree(b, cut, q - 1) /\ b[q] \in ends
    <3>1. b[q] = to
      BY <2>1, <1>6, CutPart
    <3>2. \A k \in 0 .. q : k \in 0 .. q - 1 \/ k = q
      BY <1>6
    <3> QED BY <2>1, <3>1, <3>2, <1>4 DEF Agree
  <2>2. CASE LeftTo(waits, cut, b)
    BY <2>2, <1>4
  <2> QED BY <2>1, <2>2 DEF Faces
<1>9. Walk(sub, pat, lo, "on", to, q + 1, caps, waits)
  BY Zenon, <1>4, <1>5, <1>6, <1>7, <1>8 DEF Walk
<1>10. Walks(sub, pat, lo, Along(to, q, caps, waits))
  BY <1>9 DEF Walks, Along
<1>11. <<>> \o waits = waits
  BY <1>1, ChainJoined
<1> QED BY Zenon, <1>10, <1>11

\* The part leaves an activation that waits.
LEMMA Leaving ==
  ASSUME NEW sub, NEW pat, Usable(pat), Len(sub) \in Nat, NEW lo, NEW cut, NEW q \in 1 .. Len(pat), NEW caps, NEW waits,
         NEW ends, Faces(sub, pat, lo, cut, q, caps, waits, ends),
         NEW to \in Fitting(sub, pat, cut, q),
         NEW c \in Waits, c.p = q, WaitFits(sub, pat, cut[q - 1], to, c),
         \A j \in ends : j \in Fitting(sub, pat, cut, q) => j = to \/ Untried(c, j),
         NEW held, held = CapsAt(pat, Recut(cut, q, to), q)
  PROVE  Walks(sub, pat, lo, Along(to, q, held, <<c>> \o waits))
<1>1. Base(sub, pat, lo, cut, q - 1, caps, waits) /\ Bounded(pat, q - 1, waits)
  BY DEF Faces, Before
<1>2. Before(sub, pat, lo, cut, q, caps, waits)
  BY DEF Faces
<1>3. PICK new : new = Recut(cut, q, to) /\ Advanced(sub, pat, lo, cut, q, to, new, waits)
  BY <1>2, BaseCut
<1>4. /\ Base(sub, pat, lo, new, q, CapsAt(pat, new, q), waits)
      /\ Agree(cut, new, q - 1) /\ new[q] = to /\ new[q - 1] = cut[q - 1]
      /\ \A k \in 1 .. Len(waits) : waits[k].p \in 1 .. q - 1
      /\ \A b : LeftTo(waits, cut, b) => LeftTo(waits, new, b)
  BY <1>3 DEF Advanced
<1>5. CapsAt(pat, new, q) = held
  BY Zenon, <1>3
<1>6. q \in Nat /\ q >= 1 /\ q \in 0 .. Len(pat) /\ lo \in Nat
  <2>1. Len(pat) \in Nat
    BY DEF Usable
  <2> QED BY <2>1, <1>1 DEF Base
<1>7. PICK more : more = <<c>> \o waits
  OBVIOUS
<1>8. WaitFits(sub, pat, new[q - 1], new[q], c)
  BY Zenon, <1>4
<1>9. /\ Base(sub, pat, lo, new, q, held, more)
      /\ \A b : LeftTo(waits, new, b) => LeftTo(more, new, b)
      /\ \A b : Agree(b, new, q - 1) /\ Untried(c, b[q]) => LeftTo(more, new, b)
      /\ Bounded(pat, q, more)
  BY <1>1, <1>4, <1>5, <1>6, <1>7, <1>8, BasePush
<1>10. ASSUME NEW b \in CutsOf(sub, pat, lo) PROVE Agree(b, new, q) \/ LeftTo(more, new, b)
  <2>1. CASE Agree(b, cut, q - 1) /\ b[q] \in ends
    <3>1. b[q] = to \/ Untried(c, b[q])
      BY <2>1, <1>6, CutPart
    <3>2. \A k \in 0 .. q : k \in 0 .. q - 1 \/ k = q
      BY <1>6
    <3>3. Agree(b, new, q - 1)
      BY <2>1, <1>4 DEF Agree
    <3>4. CASE b[q] = to
      BY <3>4, <3>2, <3>3, <1>4 DEF Agree
    <3>5. CASE Untried(c, b[q])
      BY <3>3, <3>5, <1>9
    <3> QED BY <3>1, <3>4, <3>5
  <2>2. CASE LeftTo(waits, cut, b)
    BY <2>2, <1>4, <1>9
  <2> QED BY <2>1, <2>2 DEF Faces
<1>11. Walk(sub, pat, lo, "on", to, q + 1, held, more)
  BY Zenon, <1>4, <1>6, <1>9, <1>10 DEF Walk
<1>12. Walks(sub, pat, lo, Along(to, q, held, more))
  BY <1>11 DEF Walks, Along
<1> QED BY Zenon, <1>7, <1>12

\* There is no place where the part may end.
LEMMA FailsHere ==
  ASSUME NEW sub, NEW pat, Usable(pat), Len(sub) \in Nat, NEW lo, NEW cut, NEW q \in 1 .. Len(pat), NEW caps, NEW waits,
         NEW ends, Faces(sub, pat, lo, cut, q, caps, waits, ends),
         \A j \in ends : j \notin Fitting(sub, pat, cut, q), NEW at, NEW o
  PROVE  Walks(sub, pat, lo, Failed(at, o, caps, waits))
<1>1. Base(sub, pat, lo, cut, q - 1, caps, waits) /\ Bounded(pat, q - 1, waits)
  BY DEF Faces, Before
<1>2. lo \in Nat /\ q - 1 \in 0 .. Len(pat)
  BY <1>1 DEF Base
<1>3. ASSUME NEW b \in CutsOf(sub, pat, lo) PROVE LeftTo(waits, cut, b)
  BY <1>2, CutPart DEF Faces
<1>4. Walk(sub, pat, lo, "back", at, o, caps, waits)
  BY Zenon, <1>1, <1>2, <1>3 DEF Walk
<1> QED BY <1>4 DEF Walks, Failed

-----------------------------------------------------------------------------
(* The parts of a pattern.                                                   *)

\* The matcher is at a part, and every match that is not left gives it some end.
At(sub, pat, lo, cut, q, at, caps, waits) ==
  /\ Usable(pat) /\ Len(sub) \in Nat /\ q \in 1 .. Len(pat)
  /\ Faces(sub, pat, lo, cut, q, caps, waits, Nat)
  /\ lo \in Nat /\ lo >= 1 /\ at = cut[q - 1] /\ at \in Nat /\ lo <= at /\ at <= Len(sub) + 1

LEMMA AtPart ==
  ASSUME NEW sub, NEW pat, Usable(pat), Len(sub) \in Nat, NEW lo, lo >= 1, NEW at, NEW q, q <= Len(pat), NEW caps, NEW waits,
         Walk(sub, pat, lo, "on", at, q, caps, waits)
  PROVE  \E cut : At(sub, pat, lo, cut, q, at, caps, waits)
<1>1. PICK cut : \E i \in 0 .. Len(pat) :
        /\ Base(sub, pat, lo, cut, i, caps, waits) /\ Bounded(pat, i, waits) /\ at = cut[i] /\ q = i + 1
        /\ \A b \in CutsOf(sub, pat, lo) : Agree(b, cut, i) \/ LeftTo(waits, cut, b)
  BY DEF Walk
<1>2. PICK i \in 0 .. Len(pat) :
        /\ Base(sub, pat, lo, cut, i, caps, waits) /\ Bounded(pat, i, waits) /\ at = cut[i] /\ q = i + 1
        /\ \A b \in CutsOf(sub, pat, lo) : Agree(b, cut, i) \/ LeftTo(waits, cut, b)
  BY <1>1
<1>3. Len(pat) \in Nat /\ lo \in Nat
  BY <1>2 DEF Usable, Base
<1>4. q \in 1 .. Len(pat) /\ q - 1 = i
  BY <1>2, <1>3
<1>5. \A k \in 0 .. Len(pat) : cut[k] \in Nat /\ lo <= cut[k] /\ cut[k] <= Len(sub) + 1
  BY <1>2, <1>3, BaseRises
<1>6. \A b \in CutsOf(sub, pat, lo) : Agree(b, cut, q - 1) => b[q] \in Nat
  BY <1>3, <1>4, CutPart
<1>7. Faces(sub, pat, lo, cut, q, caps, waits, Nat)
  BY Zenon, <1>2, <1>4, <1>6 DEF Faces, Before
<1> QED BY <1>2, <1>3, <1>4, <1>5, <1>7 DEF At

LEMMA AtRises ==
  ASSUME NEW sub, NEW pat, NEW lo, NEW cut, NEW q, NEW at, NEW caps, NEW waits, At(sub, pat, lo, cut, q, at, caps, waits)
  PROVE  /\ Rising(cut, q - 1) /\ caps = CapsAt(pat, cut, q - 1) /\ q - 1 \in 0 .. Len(pat) /\ Len(pat) \in Nat
         /\ \A k \in 0 .. q - 1 : cut[k] \in Nat /\ lo <= cut[k] /\ cut[k] <= at
<1>1. Base(sub, pat, lo, cut, q - 1, caps, waits) /\ Len(sub) \in Nat /\ Len(pat) \in Nat /\ q \in 1 .. Len(pat)
      /\ at = cut[q - 1] /\ lo \in Nat
  BY DEF At, Faces, Before, Usable
<1>2. PICK h \in Nat : h = q - 1 /\ h \in 0 .. Len(pat)
  <2>1. q - 1 \in Nat /\ q - 1 \in 0 .. Len(pat)
    BY <1>1
  <2> QED BY <2>1
<1>3. Rising(cut, h) /\ \A k \in 0 .. Len(pat) : cut[k] \in Nat /\ lo <= cut[k]
  BY <1>1, <1>2, BaseRises
<1>4. ASSUME NEW k \in 0 .. h PROVE cut[k] \in Nat /\ lo <= cut[k] /\ cut[k] <= cut[h]
  <2>1. k \in 0 .. Len(pat) /\ h \in 0 .. h /\ k <= h
    BY <1>1, <1>2
  <2>2. cut[k] <= cut[h]
    BY <2>1, <1>3, Rises
  <2> QED BY <2>1, <2>2, <1>3
<1>5. caps = CapsAt(pat, cut, q - 1)
  BY <1>1 DEF Base
<1> QED BY <1>1, <1>2, <1>3, <1>4, <1>5

\* %f, $ and a ^ that does not begin the pattern.
LEMMA Tested ==
  ASSUME NEW sub, NEW pat, NEW lo, NEW cut, NEW q, NEW at, NEW caps, NEW waits, At(sub, pat, lo, cut, q, at, caps, waits),
         pat[q].op \in {"%f", "$"}, NEW holds, holds <=> at \in Fitting(sub, pat, cut, q)
  PROVE  Walks(sub, pat, lo, AfterTest(holds, at, q, caps, waits))
<1>1. /\ Usable(pat) /\ Len(sub) \in Nat /\ q \in 1 .. Len(pat) /\ at = cut[q - 1]
      /\ Faces(sub, pat, lo, cut, q, caps, waits, Nat)
  BY DEF At
<1>2. ASSUME NEW j \in Fitting(sub, pat, cut, q) PROVE j = at
  BY <1>1 DEF Fitting, MeansOf
<1>3. CASE holds
  <2>1. pat[q].op \notin {"(", "()", ")"}
    OBVIOUS
  <2>2. Walks(sub, pat, lo, Along(at, q, caps, <<>> \o waits))
    BY <1>1, <1>2, <1>3, <2>1, Proceeds
  <2> QED BY Zenon, <1>3, <2>2 DEF AfterTest
<1>4. CASE ~holds
  <2>1. \A j \in Nat : j \notin Fitting(sub, pat, cut, q)
    BY <1>2, <1>4
  <2>2. Walks(sub, pat, lo, Failed(at, q, caps, waits))
    BY <1>1, <2>1, FailsHere
  <2> QED BY Zenon, <1>4, <2>2 DEF AfterTest
<1> QED BY <1>3, <1>4

LEMMA TestPart ==
  ASSUME NEW sub, NEW pat, NEW lo, NEW cut, NEW q, NEW at, NEW caps, NEW waits, At(sub, pat, lo, cut, q, at, caps, waits),
         pat[q].op \in {"%f", "$", "^"}
  PROVE  Walks(sub, pat, lo, AfterPart(sub, pat[q], at, q, caps, waits))
<1>1. /\ Usable(pat) /\ Len(sub) \in Nat /\ q \in 1 .. Len(pat) /\ at = cut[q - 1] /\ at \in at .. Len(sub) + 1
      /\ Faces(sub, pat, lo, cut, q, caps, waits, Nat)
  BY DEF At
<1>2. CASE pat[q].op = "%f"
  <2>1. PICK holds \in BOOLEAN :
          holds = ~((at > 1 /\ Entry(sub, at - 1, pat[q].set)) \/ ~Entry(sub, at, pat[q].set))
    OBVIOUS
  <2>2. MeansOf(sub, pat, q, at, at, cut) <=> holds
    BY <1>2, <2>1 DEF MeansOf
  <2>3. holds <=> at \in Fitting(sub, pat, cut, q)
    BY <1>1, <2>2 DEF Fitting
  <2>4. Walks(sub, pat, lo, AfterTest(holds, at, q, caps, waits))
    BY <1>2, <2>3, Tested
  <2>5. AfterPart(sub, pat[q], at, q, caps, waits) = AfterTest(holds, at, q, caps, waits)
    BY <1>2, <2>1 DEF AfterPart
  <2> QED BY Zenon, <2>4, <2>5
<1>3. CASE pat[q].op = "$"
  <2>1. PICK holds \in BOOLEAN : holds = (at = Len(sub) + 1)
    OBVIOUS
  <2>2. MeansOf(sub, pat, q, at, at, cut) <=> holds
    BY <1>3, <2>1 DEF MeansOf
  <2>3. holds <=> at \in Fitting(sub, pat, cut, q)
    BY <1>1, <2>2 DEF Fitting
  <2>4. Walks(sub, pat, lo, AfterTest(holds, at, q, caps, waits))
    BY <1>3, <2>3, Tested
  <2>5. AfterPart(sub, pat[q], at, q, caps, waits) = AfterTest(holds, at, q, caps, waits)
    BY <1>3, <2>1 DEF AfterPart
  <2> QED BY Zenon, <2>4, <2>5
<1>4. CASE pat[q].op = "^"
  <2>1. \A j : j \notin Fitting(sub, pat, cut, q)
    <3>1. Base(sub, pat, lo, cut, q - 1, caps, waits)
      BY <1>1 DEF Faces, Before
    <3>2. q # 1
      <4>1. ASSUME q = 1 PROVE FALSE
        <5>1. pat # <<>> /\ pat[1].op = "^" => q - 1 >= 1
          BY <3>1 DEF Base
        <5>2. pat # <<>>
          BY <1>1
        <5> QED BY <4>1, <5>1, <5>2, <1>4
      <4> QED BY <4>1
    <3> QED BY <3>2, <1>4 DEF Fitting, MeansOf
  <2>2. Walks(sub, pat, lo, Failed(at, q, caps, waits))
    BY <1>1, <2>1, FailsHere
  <2>3. AfterPart(sub, pat[q], at, q, caps, waits) = Failed(at, q, caps, waits)
    BY <1>4 DEF AfterPart
  <2> QED BY Zenon, <2>2, <2>3
<1> QED BY <1>2, <1>3, <1>4

\* A part that matches nothing, at the place where the matcher is.
LEMMA AtNothing ==
  ASSUME NEW sub, NEW pat, NEW lo, NEW cut, NEW q, NEW at, NEW caps, NEW waits, At(sub, pat, lo, cut, q, at, caps, waits),
         pat[q].op \in {"(", "()", ")"}, NEW new, new = Recut(cut, q, at)
  PROVE  /\ at \in Fitting(sub, pat, cut, q) /\ \A j \in Nat : j \in Fitting(sub, pat, cut, q) => j = at
         /\ Rising(new, q) /\ new[q] = at /\ CapsAt(pat, new, q - 1) = caps
<1>1. /\ Usable(pat) /\ Len(sub) \in Nat /\ q \in 1 .. Len(pat) /\ at = cut[q - 1] /\ at \in at .. Len(sub) + 1
      /\ Faces(sub, pat, lo, cut, q, caps, waits, Nat)
  BY DEF At
<1>2. at \in Fitting(sub, pat, cut, q) /\ \A j \in Nat : j \in Fitting(sub, pat, cut, q) => j = at
  BY <1>1 DEF Fitting, MeansOf
<1>3. Before(sub, pat, lo, cut, q, caps, waits)
  BY <1>1 DEF Faces
<1>4. Advanced(sub, pat, lo, cut, q, at, new, waits)
  BY <1>1, <1>2, <1>3, BaseCut
<1>5. Base(sub, pat, lo, new, q, CapsAt(pat, new, q), waits) /\ Agree(cut, new, q - 1) /\ new[q] = at
  BY <1>4 DEF Advanced
<1>6. Len(pat) \in Nat
  BY <1>1 DEF Usable
<1>7. Rising(new, q)
  BY <1>1, <1>5, <1>6, BaseRises
<1>8. CapsAt(pat, cut, q - 1) = CapsAt(pat, new, q - 1)
  <2>1. q - 1 \in 0 .. Len(pat)
    BY <1>1, <1>6
  <2> QED BY <2>1, <1>1, <1>5, CapsAgree
<1>9. caps = CapsAt(pat, cut, q - 1)
  BY AtRises
<1> QED BY <1>2, <1>5, <1>7, <1>8, <1>9

LEMMA StartPart ==
  ASSUME NEW sub, NEW pat, NEW lo, NEW cut, NEW q, NEW at, NEW caps, NEW waits, At(sub, pat, lo, cut, q, at, caps, waits),
         pat[q].op \in {"(", "()"}
  PROVE  Walks(sub, pat, lo, AfterPart(sub, pat[q], at, q, caps, waits))
<1>1. /\ Usable(pat) /\ Len(sub) \in Nat /\ q \in 1 .. Len(pat) /\ at = cut[q - 1] /\ at \in Nat
      /\ Faces(sub, pat, lo, cut, q, caps, waits, Nat)
  BY DEF At
<1>2. PICK new : new = Recut(cut, q, at)
  OBVIOUS
<1>3. /\ at \in Fitting(sub, pat, cut, q) /\ \A j \in Nat : j \in Fitting(sub, pat, cut, q) => j = at
      /\ Rising(new, q) /\ new[q] = at /\ CapsAt(pat, new, q - 1) = caps
  BY <1>2, AtNothing
<1>4. PICK what : what = IF pat[q].op = "()" THEN Position ELSE Unfinished
  OBVIOUS
<1>5. PICK held : held = Append(caps, [init |-> at, len |-> what])
  OBVIOUS
<1>6. held = CapsAt(pat, Recut(cut, q, at), q) /\ Len(caps) < MaxCaptures
  <2>1. pat[q].op \in CaptureOps
    BY DEF CaptureOps
  <2>2. /\ CapsAt(pat, new, q) = Append(CapsAt(pat, new, q - 1), [init |-> new[q], len |-> what])
        /\ Len(CapsAt(pat, new, q - 1)) < MaxCaptures
    BY SMTT(60), <2>1, <1>1, <1>3, <1>4, CapsStart
  <2> QED BY Zenon, <2>2, <1>2, <1>3, <1>5
<1>7. PICK c : c = [kind |-> "start", s |-> at, p |-> q, n |-> 0]
  OBVIOUS
<1>8. c \in Waits /\ c.p = q /\ WaitFits(sub, pat, cut[q - 1], at, c)
  BY <1>1, <1>7 DEF Waits, WaitFits, CaptureOps
<1>9. Walks(sub, pat, lo, Along(at, q, held, <<c>> \o waits))
  BY <1>1, <1>3, <1>6, <1>8, Leaving
<1>10. ~(Len(caps) >= MaxCaptures)
  <2>1. MaxCaptures \in Nat
    BY StringMatchAssumption
  <2>2. Len(caps) \in Nat
    BY <1>3, AtRises, <1>1, CapsAre
  <2> QED BY <2>1, <2>2, <1>6
<1>11. AfterStart(what, at, q, caps, waits) = Along(at, q, held, <<c>> \o waits)
  BY Zenon, <1>5, <1>7, <1>10 DEF AfterStart
<1>12. AfterPart(sub, pat[q], at, q, caps, waits) = AfterStart(what, at, q, caps, waits)
  BY <1>4 DEF AfterPart
<1> QED BY Zenon, <1>9, <1>11, <1>12

LEMMA EndPart ==
  ASSUME NEW sub, NEW pat, NEW lo, NEW cut, NEW q, NEW at, NEW caps, NEW waits, At(sub, pat, lo, cut, q, at, caps, waits),
         pat[q].op = ")"
  PROVE  Walks(sub, pat, lo, AfterPart(sub, pat[q], at, q, caps, waits))
<1>1. /\ Usable(pat) /\ Len(sub) \in Nat /\ q \in 1 .. Len(pat) /\ at = cut[q - 1] /\ at \in Nat
      /\ Faces(sub, pat, lo, cut, q, caps, waits, Nat)
  BY DEF At
<1>2. PICK new : new = Recut(cut, q, at)
  OBVIOUS
<1>3. /\ at \in Fitting(sub, pat, cut, q) /\ \A j \in Nat : j \in Fitting(sub, pat, cut, q) => j = at
      /\ Rising(new, q) /\ new[q] = at /\ CapsAt(pat, new, q - 1) = caps
  BY <1>2, AtNothing
<1>4. PICK l \in 1 .. Rank(pat, q - 1) : Shut(pat, new, q, l)
  BY <1>1, <1>3, CapsEnd
<1>5. /\ pat[Nth(pat, l)].op = "(" /\ CloseOf(pat, Nth(pat, l)) = q
      /\ OpenIn(caps) # {} /\ l = LastOpen(caps)
      /\ CapsAt(pat, new, q) = [caps EXCEPT ![l].len = at - caps[l].init]
  BY Zenon, <1>3, <1>4 DEF Shut
<1>6. PICK held : held = [caps EXCEPT ![LastOpen(caps)].len = at - caps[LastOpen(caps)].init]
  OBVIOUS
<1>7. held = CapsAt(pat, Recut(cut, q, at), q)
  BY Zenon, <1>2, <1>5, <1>6
<1>8. PICK c : c = [kind |-> "end", s |-> at, p |-> q, n |-> LastOpen(caps)]
  OBVIOUS
<1>9. Rank(pat, q - 1) \in Nat
  <2>1. q - 1 \in Nat
    BY <1>1
  <2> QED BY <2>1, <1>1, RankNext
<1>10. c \in Waits /\ c.p = q /\ WaitFits(sub, pat, cut[q - 1], at, c)
  <2>1. l \in Nat /\ LastOpen(caps) = l
    BY <1>5, <1>9
  <2>2. c = [kind |-> "end", s |-> at, p |-> q, n |-> l]
    BY Zenon, <2>1, <1>8
  <2>3. c \in Waits /\ c.p = q /\ c.kind = "end" /\ c.n = l
    BY <2>1, <2>2, <1>1 DEF Waits
  <2> QED BY <2>3, <1>5 DEF WaitFits
<1>11. Walks(sub, pat, lo, Along(at, q, held, <<c>> \o waits))
  BY <1>1, <1>3, <1>7, <1>10, Leaving
<1>12. AfterEnd(at, q, caps, waits) = Along(at, q, held, <<c>> \o waits)
  BY Zenon, <1>5, <1>6, <1>8 DEF AfterEnd
<1>13. AfterPart(sub, pat[q], at, q, caps, waits) = AfterEnd(at, q, caps, waits)
  BY DEF AfterPart
<1> QED BY Zenon, <1>11, <1>12, <1>13

-----------------------------------------------------------------------------
(* A set with its repetition.                                                *)

\* How often max_expand can repeat it.
LEMMA MostIs ==
  ASSUME NEW sub, Len(sub) \in Nat, NEW i \in Nat, i <= Len(sub) + 1, NEW set
  PROVE  /\ Most(sub, i, set) \in Nat /\ i + Most(sub, i, set) <= Len(sub) + 1
         /\ \A j \in i .. i + Most(sub, i, set) - 1 : sub[j] \in set
         /\ ~Entry(sub, i + Most(sub, i, set), set)
<1>1. PICK e \in Nat : e = Len(sub) + 1 /\ i <= e
  OBVIOUS
<1> DEFINE T == {n \in 0 .. e - i : ~Entry(sub, i + n, set)}
<1>2. e - i \in T
  BY <1>1 DEF Entry
<1>3. PICK n \in T : \A j \in T : n <= j
  <2>1. T \subseteq 0 .. e - i /\ 0 .. e - i \subseteq Nat
    OBVIOUS
  <2>2. T \subseteq Nat /\ T # {}
    BY <1>2, <2>1
  <2> HIDE DEF T
  <2> QED BY <2>2, Least
<1>4. /\ n \in 0 .. (Len(sub) + 1) - i /\ ~Entry(sub, i + n, set)
      /\ \A j \in 0 .. n - 1 : Entry(sub, i + j, set)
  <2>1. n \in 0 .. e - i /\ ~Entry(sub, i + n, set)
    OBVIOUS
  <2>2. ASSUME NEW j \in 0 .. n - 1, ~Entry(sub, i + j, set) PROVE FALSE
    <3>1. j \in T
      BY <2>1, <2>2
    <3>2. n <= j
      BY ONLY <3>1, <1>3
    <3> QED BY <2>1, <3>2
  <2> QED BY <1>1, <2>1, <2>2
<1> HIDE DEF T
<1>5. PICK o \in 0 .. (Len(sub) + 1) - i :
        o = Most(sub, i, set) /\ ~Entry(sub, i + o, set) /\ \A j \in 0 .. o - 1 : Entry(sub, i + j, set)
  <2>1. /\ Most(sub, i, set) \in 0 .. (Len(sub) + 1) - i
        /\ ~Entry(sub, i + Most(sub, i, set), set) /\ \A j \in 0 .. Most(sub, i, set) - 1 : Entry(sub, i + j, set)
    BY <1>4 DEF Most
  <2> QED BY <2>1
<1>6. ASSUME NEW j \in i .. i + o - 1 PROVE sub[j] \in set
  <2>1. j - i \in 0 .. o - 1 /\ i + (j - i) = j
    BY <1>5
  <2>2. Entry(sub, i + (j - i), set)
    BY <2>1, <1>5
  <2> QED BY <2>1, <2>2 DEF Entry
<1> QED BY <1>1, <1>5, <1>6

AllIn(sub, from, to, set) == \A j \in from .. to - 1 : sub[j] \in set

\* Where a set with its repetition may end.
LEMMA SetFits ==
  ASSUME NEW sub, NEW pat, NEW cut, NEW q, Len(sub) \in Nat, cut[q - 1] \in Nat, cut[q - 1] <= Len(sub) + 1,
         pat[q].op = "set", pat[q].rep \in Reps, NEW to \in Nat
  PROVE  to \in Fitting(sub, pat, cut, q) <=>
           /\ cut[q - 1] <= to /\ to <= Len(sub) + 1 /\ AllIn(sub, cut[q - 1], to, pat[q].set)
           /\ pat[q].rep = "1" => to = cut[q - 1] + 1
           /\ pat[q].rep = "?" => to = cut[q - 1] \/ to = cut[q - 1] + 1
           /\ pat[q].rep = "+" => to >= cut[q - 1] + 1
<1>1. PICK a \in Nat, e \in Nat : a = cut[q - 1] /\ e = Len(sub) + 1 /\ a <= e
  <2>1. cut[q - 1] \in Nat /\ Len(sub) + 1 \in Nat
    OBVIOUS
  <2> QED BY <2>1
<1>2. MeansOf(sub, pat, q, a, to, cut) <=>
        /\ AllIn(sub, a, to, pat[q].set)
        /\ to - a \in (CASE pat[q].rep = "1" -> {1} [] pat[q].rep = "?" -> {0, 1}
                         [] pat[q].rep = "+" -> 1 .. Len(sub) + 1 [] OTHER -> 0 .. Len(sub) + 1)
  BY DEF MeansOf, AllIn
<1>3. a <= to /\ to <= e =>
        (to - a \in (CASE pat[q].rep = "1" -> {1} [] pat[q].rep = "?" -> {0, 1}
                       [] pat[q].rep = "+" -> 1 .. Len(sub) + 1 [] OTHER -> 0 .. Len(sub) + 1)
         <=> /\ pat[q].rep = "1" => to = a + 1
             /\ pat[q].rep = "?" => to = a \/ to = a + 1
             /\ pat[q].rep = "+" => to >= a + 1)
  BY <1>1 DEF Reps
<1>4. to \in Fitting(sub, pat, cut, q) <=> to \in a .. e /\ MeansOf(sub, pat, q, a, to, cut)
  BY <1>1 DEF Fitting
<1>5. to \in a .. e <=> a <= to /\ to <= e
  BY <1>1
<1> QED BY <1>1, <1>2, <1>3, <1>4, <1>5

\* As far as the longest repetition, and no farther.
LEMMA MostReaches ==
  ASSUME NEW sub, Len(sub) \in Nat, NEW i \in Nat, i <= Len(sub) + 1, NEW set, NEW from \in Nat, from <= i,
         AllIn(sub, from, i, set), NEW n, n = Most(sub, i, set)
  PROVE  /\ n \in Nat /\ i + n <= Len(sub) + 1
         /\ \A to \in i .. i + n : AllIn(sub, from, to, set)
         /\ \A to \in Nat : to <= Len(sub) + 1 /\ AllIn(sub, from, to, set) => to <= i + n
<1>1. /\ n \in Nat /\ i + n <= Len(sub) + 1
      /\ \A j \in i .. i + n - 1 : sub[j] \in set
      /\ ~Entry(sub, i + n, set)
  BY MostIs
<1>2. ASSUME NEW to \in i .. i + n PROVE AllIn(sub, from, to, set)
  <2> SUFFICES ASSUME NEW j \in from .. to - 1 PROVE sub[j] \in set
    BY DEF AllIn
  <2>1. j \in from .. i - 1 \/ j \in i .. i + n - 1
    BY <1>1
  <2> QED BY <2>1, <1>1 DEF AllIn
<1>3. ASSUME NEW to \in Nat, to <= Len(sub) + 1, AllIn(sub, from, to, set), to > i + n PROVE FALSE
  <2>1. i + n \in from .. to - 1 /\ i + n < Len(sub) + 1
    BY <1>1, <1>3
  <2>2. sub[i + n] \in set
    BY <2>1, <1>3 DEF AllIn
  <2> QED BY <2>1, <2>2, <1>1 DEF Entry
<1>4. \A to \in Nat : to <= Len(sub) + 1 /\ AllIn(sub, from, to, set) => to <= i + n
  BY <1>1, <1>3
<1> QED BY <1>1, <1>2, <1>4

\* max_expand, behind the character that + asks for.
LEMMA ExpandPart ==
  ASSUME NEW sub, NEW pat, NEW lo, NEW cut, NEW q, NEW at, NEW caps, NEW waits, At(sub, pat, lo, cut, q, at, caps, waits),
         pat[q].op = "set", pat[q].rep \in {"*", "+"},
         NEW i, i = at + (IF pat[q].rep = "+" THEN 1 ELSE 0), pat[q].rep = "+" => Entry(sub, at, pat[q].set)
  PROVE  Walks(sub, pat, lo, Expanded(sub, pat[q].set, i, q, caps, waits))
<1>1. /\ Usable(pat) /\ Len(sub) \in Nat /\ q \in 1 .. Len(pat) /\ at = cut[q - 1] /\ at \in Nat /\ at <= Len(sub) + 1
      /\ Faces(sub, pat, lo, cut, q, caps, waits, Nat) /\ Before(sub, pat, lo, cut, q, caps, waits)
  BY DEF At, Faces
<1>2. PICK set : set = pat[q].set
  OBVIOUS
<1>3. i \in Nat /\ at <= i /\ i <= Len(sub) + 1 /\ AllIn(sub, at, i, set)
  BY SMTT(60), <1>1, <1>2 DEF Entry, AllIn
<1>4. PICK n : n = Most(sub, i, set)
  OBVIOUS
<1>5. /\ n \in Nat /\ i + n <= Len(sub) + 1
      /\ \A to \in i .. i + n : AllIn(sub, at, to, set)
      /\ \A to \in Nat : to <= Len(sub) + 1 /\ AllIn(sub, at, to, set) => to <= i + n
  BY SMTT(60), <1>1, <1>3, <1>4, MostReaches
<1>6. PICK to \in Nat : to = i + n
  BY <1>3, <1>5
<1>7. to \in Fitting(sub, pat, cut, q)
  <2>1. AllIn(sub, at, to, set)
    BY <1>3, <1>5, <1>6
  <2>2. at <= to /\ to <= Len(sub) + 1 /\ (pat[q].rep = "+" => to >= at + 1)
    BY SMTT(60), <1>1, <1>3, <1>5, <1>6
  <2>3. pat[q].rep \in Reps /\ pat[q].rep # "1" /\ pat[q].rep # "?"
    BY DEF Reps
  <2> QED BY <2>1, <2>2, <2>3, <1>1, <1>2, SetFits
<1>8. ASSUME NEW j \in Nat, j \in Fitting(sub, pat, cut, q) PROVE j \in i .. to
  <2>1. at <= j /\ j <= Len(sub) + 1 /\ AllIn(sub, at, j, set) /\ (pat[q].rep = "+" => j >= at + 1)
    BY <1>1, <1>2, <1>8, SetFits DEF Reps
  <2>2. j <= i + n
    BY <2>1, <1>5
  <2> QED BY <2>1, <2>2, <1>1, <1>3, <1>6
<1>9. CASE n = 0
  <2>1. \A j \in Nat : j \in Fitting(sub, pat, cut, q) => j = to
    BY <1>3, <1>6, <1>8, <1>9
  <2>2. Walks(sub, pat, lo, Along(to, q, caps, <<>> \o waits))
    BY <1>1, <1>7, <2>1, Proceeds
  <2> QED BY Zenon, <2>2, <1>2, <1>4, <1>6, <1>9 DEF Expanded
<1>10. CASE n # 0
  <2>1. PICK c : c = [kind |-> "max", s |-> i, p |-> q, n |-> n - 1]
    OBVIOUS
  <2>2. c \in Waits /\ c.p = q /\ c.kind = "max" /\ c.s = i /\ c.n = n - 1 /\ n - 1 \in Nat
    BY <2>1, <1>1, <1>3, <1>5, <1>10 DEF Waits
  <2>3. WaitFits(sub, pat, at, to, c)
    BY <2>2, <1>3, <1>5, <1>6 DEF WaitFits
  <2>4. ASSUME NEW j \in Nat, j \in Fitting(sub, pat, cut, q) PROVE j = to \/ Untried(c, j)
    <3>1. j \in i .. to
      BY <2>4, <1>8
    <3>2. j = to \/ j <= c.s + c.n
      BY <3>1, <2>2, <1>3, <1>5, <1>6
    <3> QED BY <3>2, <2>2 DEF Untried
  <2>5. caps = CapsAt(pat, Recut(cut, q, to), q)
    BY <1>1, <1>7, KeepsCaps
  <2>6. WaitFits(sub, pat, cut[q - 1], to, c)
    BY Zenon, <2>3, <1>1
  <2>7. Walks(sub, pat, lo, Along(to, q, caps, <<c>> \o waits))
    BY <1>1, <1>7, <2>2, <2>4, <2>5, <2>6, Leaving
  <2> QED BY Zenon, <2>1, <2>7, <1>2, <1>4, <1>6, <1>10 DEF Expanded
<1> QED BY <1>9, <1>10

LEMMA SinglePart ==
  ASSUME NEW sub, NEW pat, NEW lo, NEW cut, NEW q, NEW at, NEW caps, NEW waits, At(sub, pat, lo, cut, q, at, caps, waits),
         pat[q].op = "set"
  PROVE  Walks(sub, pat, lo, AfterPart(sub, pat[q], at, q, caps, waits))
<1>1. /\ Usable(pat) /\ Len(sub) \in Nat /\ q \in 1 .. Len(pat) /\ at = cut[q - 1] /\ at \in Nat /\ at <= Len(sub) + 1
      /\ Faces(sub, pat, lo, cut, q, caps, waits, Nat) /\ Before(sub, pat, lo, cut, q, caps, waits)
      /\ pat[q].op \notin {"(", "()", ")"}
  BY DEF At, Faces
<1>2. PICK set, rep : set = pat[q].set /\ rep = pat[q].rep
  OBVIOUS
<1>3. pat[q].rep \in Reps
  BY <1>1 DEF Usable, Shape
<1>4. AfterPart(sub, pat[q], at, q, caps, waits) = AfterSingle(sub, rep, set, at, q, caps, waits)
  BY <1>2 DEF AfterPart
<1>5. PICK m \in BOOLEAN : m = Entry(sub, at, set)
  <2>1. Entry(sub, at, set) \in BOOLEAN
    BY DEF Entry
  <2> QED BY <2>1
<1>6. /\ AllIn(sub, at, at, set)
      /\ m => AllIn(sub, at, at + 1, set) /\ at + 1 <= Len(sub) + 1
      /\ \A j \in Nat : at < j /\ j <= Len(sub) + 1 /\ AllIn(sub, at, j, set) => m
  <2>1. AllIn(sub, at, at, set)
    BY <1>1 DEF AllIn
  <2>3. ASSUME m PROVE AllIn(sub, at, at + 1, set) /\ at + 1 <= Len(sub) + 1
    <3>1. Entry(sub, at, set)
      BY <2>3, <1>5
    <3>2. at < Len(sub) + 1 /\ sub[at] \in set
      BY <3>1 DEF Entry
    <3>3. \A j \in at .. (at + 1) - 1 : j = at
      BY <1>1
    <3> QED BY <3>2, <3>3, <1>1 DEF AllIn
  <2>2. ASSUME NEW j \in Nat, at < j, j <= Len(sub) + 1, AllIn(sub, at, j, set) PROVE m
    <3>1. at \in at .. j - 1 /\ at < Len(sub) + 1
      BY <2>2, <1>1
    <3> QED BY <3>1, <2>2, <1>5 DEF AllIn, Entry
  <2> QED BY <2>1, <2>2, <2>3
<1>7. \A j \in Nat : j \in Fitting(sub, pat, cut, q) <=>
        /\ at <= j /\ j <= Len(sub) + 1 /\ AllIn(sub, at, j, set)
        /\ rep = "1" => j = at + 1
        /\ rep = "?" => j = at \/ j = at + 1
        /\ rep = "+" => j >= at + 1
  BY <1>1, <1>2, <1>3, SetFits
<1>8. at + 1 \in Nat
  BY <1>1
<1>9. ASSUME ~m, rep \in {"1", "+"} PROVE Walks(sub, pat, lo, Failed(at, q, caps, waits))
  <2>1. \A j \in Nat : j \notin Fitting(sub, pat, cut, q)
    BY <1>1, <1>6, <1>7, <1>9
  <2> QED BY <2>1, <1>1, FailsHere
<1>10. CASE rep = "1"
  <2>1. CASE m
    <3>1. at + 1 \in Fitting(sub, pat, cut, q)
      BY <2>1, <1>1, <1>6, <1>7, <1>8, <1>10
    <3>2. \A j \in Nat : j \in Fitting(sub, pat, cut, q) => j = at + 1
      BY <1>7, <1>10
    <3>3. Walks(sub, pat, lo, Along(at + 1, q, caps, <<>> \o waits))
      BY <3>1, <3>2, <1>1, Proceeds
    <3> QED BY Zenon, <2>1, <3>3, <1>4, <1>5, <1>10 DEF AfterSingle
  <2>2. CASE ~m
    BY Zenon, <2>2, <1>4, <1>5, <1>9, <1>10 DEF AfterSingle
  <2> QED BY <2>1, <2>2
<1>11. CASE rep = "?"
  <2>1. CASE m
    <3>1. at + 1 \in Fitting(sub, pat, cut, q)
      BY <2>1, <1>1, <1>6, <1>7, <1>8, <1>11
    <3>2. PICK c : c = [kind |-> "min", s |-> at, p |-> q, n |-> 0]
      OBVIOUS
    <3>7. c \in Waits /\ c.p = q /\ c.kind = "min" /\ c.n = 0 /\ c.s = at
      BY <3>2, <1>1 DEF Waits
    <3>3. c \in Waits /\ c.p = q /\ WaitFits(sub, pat, cut[q - 1], at + 1, c)
      BY <3>7, <1>1, <1>2, <1>11 DEF WaitFits
    <3>4. \A j \in Nat : j \in Fitting(sub, pat, cut, q) => j = at + 1 \/ Untried(c, j)
      BY <3>2, <1>7, <1>11 DEF Untried
    <3>5. caps = CapsAt(pat, Recut(cut, q, at + 1), q)
      BY <3>1, <1>1, KeepsCaps
    <3>6. Walks(sub, pat, lo, Along(at + 1, q, caps, <<c>> \o waits))
      BY <3>1, <3>3, <3>4, <3>5, <1>1, Leaving
    <3> QED BY Zenon, <2>1, <3>2, <3>6, <1>4, <1>5, <1>11 DEF AfterSingle
  <2>2. CASE ~m
    <3>1. at \in Fitting(sub, pat, cut, q)
      BY <1>1, <1>6, <1>7, <1>11
    <3>2. \A j \in Nat : j \in Fitting(sub, pat, cut, q) => j = at
      BY <2>2, <1>1, <1>6, <1>7
    <3>3. Walks(sub, pat, lo, Along(at, q, caps, <<>> \o waits))
      BY <3>1, <3>2, <1>1, Proceeds
    <3> QED BY Zenon, <2>2, <3>3, <1>4, <1>5, <1>11 DEF AfterSingle
  <2> QED BY <2>1, <2>2
<1>12. CASE rep = "*"
  <2>1. at = at + (IF pat[q].rep = "+" THEN 1 ELSE 0) /\ (pat[q].rep = "+" => Entry(sub, at, pat[q].set))
    BY <1>1, <1>2, <1>12
  <2>2. Walks(sub, pat, lo, Expanded(sub, pat[q].set, at, q, caps, waits))
    BY <2>1, <1>2, <1>12, ExpandPart
  <2> QED BY Zenon, <2>2, <1>2, <1>4, <1>12 DEF AfterSingle
<1>13. CASE rep = "+"
  <2>1. CASE m
    <3>1. at + 1 = at + (IF pat[q].rep = "+" THEN 1 ELSE 0) /\ (pat[q].rep = "+" => Entry(sub, at, pat[q].set))
      BY <2>1, <1>1, <1>2, <1>5, <1>13
    <3>2. Walks(sub, pat, lo, Expanded(sub, pat[q].set, at + 1, q, caps, waits))
      BY <3>1, <1>2, <1>13, ExpandPart
    <3> QED BY Zenon, <2>1, <3>2, <1>2, <1>4, <1>5, <1>13 DEF AfterSingle
  <2>2. CASE ~m
    BY Zenon, <2>2, <1>4, <1>5, <1>9, <1>13 DEF AfterSingle
  <2> QED BY <2>1, <2>2
<1>14. CASE rep = "-"
  <2>1. at \in Fitting(sub, pat, cut, q)
    BY <1>1, <1>6, <1>7, <1>14
  <2>2. CASE m
    <3>1. PICK c : c = [kind |-> "min", s |-> at, p |-> q, n |-> 1]
      OBVIOUS
    <3>7. c \in Waits /\ c.p = q /\ c.kind = "min" /\ c.n = 1 /\ c.s = at
      BY <3>1, <1>1 DEF Waits
    <3>8. Entry(sub, at, pat[q].set)
      BY <2>2, <1>2, <1>5
    <3>2. c \in Waits /\ c.p = q /\ WaitFits(sub, pat, cut[q - 1], at, c)
      BY <3>7, <3>8, <1>1, <1>2, <1>14 DEF WaitFits
    <3>3. \A j \in Nat : j \in Fitting(sub, pat, cut, q) => j = at \/ Untried(c, j)
      BY <3>1, <1>1, <1>7 DEF Untried
    <3>4. caps = CapsAt(pat, Recut(cut, q, at), q)
      BY <2>1, <1>1, KeepsCaps
    <3>5. Walks(sub, pat, lo, Along(at, q, caps, <<c>> \o waits))
      BY <2>1, <3>2, <3>3, <3>4, <1>1, Leaving
    <3>6. AfterSingle(sub, rep, set, at, q, caps, waits) = Along(at, q, caps, <<c>> \o waits)
      BY <2>2, <3>1, <1>5, <1>14 DEF AfterSingle
    <3> QED BY Zenon, <3>5, <3>6, <1>4
  <2>3. CASE ~m
    <3>1. \A j \in Nat : j \in Fitting(sub, pat, cut, q) => j = at
      BY <2>3, <1>1, <1>6, <1>7
    <3>2. Walks(sub, pat, lo, Along(at, q, caps, <<>> \o waits))
      BY <2>1, <3>1, <1>1, Proceeds
    <3>3. AfterSingle(sub, rep, set, at, q, caps, waits) = Along(at, q, caps, <<>> \o waits)
      BY <2>3, <1>5, <1>14 DEF AfterSingle
    <3> QED BY Zenon, <3>2, <3>3, <1>4
  <2> QED BY <2>2, <2>3
<1> QED BY <1>2, <1>3, <1>10, <1>11, <1>12, <1>13, <1>14 DEF Reps

\* A piece of a subject, from i on.
Chars(sub, i, n) == SubSeq(sub, i, i + n - 1)
SameChars(sub, i, j, n) == \A k \in 0 .. n - 1 : sub[i + k] = sub[j + k]

LEMMA CharsAre ==
  ASSUME NEW sub, NEW S, \A k \in Int : sub[k] \in S, NEW i \in Nat, NEW n \in Nat
  PROVE  /\ Chars(sub, i, n) \in Seq(S) /\ Len(Chars(sub, i, n)) = n
         /\ \A k \in 1 .. n : Chars(sub, i, n)[k] = sub[i + k - 1]
<1>1. PICK e \in Int : e = i + n - 1
  <2>1. i + n - 1 \in Int
    OBVIOUS
  <2> QED BY <2>1
<1>2. /\ SubSeq(sub, i, e) \in Seq(S)
      /\ Len(SubSeq(sub, i, e)) = IF i <= e THEN e - i + 1 ELSE 0
      /\ \A k \in 1 .. e - i + 1 : SubSeq(sub, i, e)[k] = sub[i + k - 1]
  <2>1. \A k \in i .. e : sub[k] \in S
    OBVIOUS
  <2> QED BY <2>1, SubSeqProperties
<1>3. e - i + 1 = n /\ (i <= e <=> n > 0)
  BY <1>1
<1>4. Chars(sub, i, n) = SubSeq(sub, i, e)
  BY Zenon, <1>1 DEF Chars
<1>5. PICK a : a = SubSeq(sub, i, e)
  OBVIOUS
<1>6. a \in Seq(S) /\ Len(a) = (IF i <= e THEN e - i + 1 ELSE 0)
      /\ \A k \in 1 .. e - i + 1 : a[k] = sub[i + k - 1]
  BY Zenon, <1>2, <1>5
<1>7. a \in Seq(S) /\ Len(a) = n /\ \A k \in 1 .. n : a[k] = sub[i + k - 1]
  BY ONLY <1>3, <1>6, i \in Nat, n \in Nat, e \in Int
<1> QED BY Zenon, <1>4, <1>5, <1>7

LEMMA SameSeqs ==
  ASSUME NEW S, NEW a \in Seq(S), NEW b \in Seq(S), Len(a) = Len(b), \A k \in 1 .. Len(a) : a[k] = b[k]
  PROVE  a = b
OBVIOUS

\* Two pieces are the same when they are as long, character by character.
LEMMA SamePieces ==
  ASSUME NEW sub, NEW i \in Nat, NEW j \in Nat, NEW n \in Nat, NEW l \in Nat
  PROVE  Chars(sub, i, n) = Chars(sub, j, l) <=> n = l /\ SameChars(sub, j, i, l)
<1>1. PICK S : S = {sub[k] : k \in Int}
  OBVIOUS
<1>2. \A k \in Int : sub[k] \in S
  BY <1>1
<1>3. PICK a, b : a = Chars(sub, i, n) /\ b = Chars(sub, j, l)
  OBVIOUS
<1>4. /\ a \in Seq(S) /\ Len(a) = n /\ \A k \in 1 .. n : a[k] = sub[i + k - 1]
      /\ b \in Seq(S) /\ Len(b) = l /\ \A k \in 1 .. l : b[k] = sub[j + k - 1]
  BY ZenonT(60), <1>2, <1>3, CharsAre
<1>5. ASSUME a = b PROVE n = l /\ SameChars(sub, j, i, l)
  <2>1. n = l
    BY <1>4, <1>5
  <2>2. ASSUME NEW k \in 0 .. l - 1 PROVE sub[j + k] = sub[i + k]
    <3>1. PICK h \in 1 .. l : h = k + 1 /\ i + h - 1 = i + k /\ j + h - 1 = j + k
      <4>1. k + 1 \in 1 .. l /\ i + (k + 1) - 1 = i + k /\ j + (k + 1) - 1 = j + k
        OBVIOUS
      <4> QED BY <4>1
    <3>2. a[h] = sub[i + h - 1] /\ b[h] = sub[j + h - 1] /\ a[h] = b[h]
      BY <2>1, <1>4, <1>5
    <3> QED BY Zenon, <3>1, <3>2
  <2> QED BY <2>1, <2>2 DEF SameChars
<1>6. ASSUME n = l, SameChars(sub, j, i, l) PROVE a = b
  <2>1. ASSUME NEW k \in 1 .. l PROVE a[k] = b[k]
    <3>1. PICK h \in 0 .. l - 1 : h = k - 1 /\ i + h = i + k - 1 /\ j + h = j + k - 1
      <4>1. k - 1 \in 0 .. l - 1 /\ i + (k - 1) = i + k - 1 /\ j + (k - 1) = j + k - 1
        OBVIOUS
      <4> QED BY <4>1
    <3>2. sub[j + h] = sub[i + h]
      BY <1>6 DEF SameChars
    <3>3. a[k] = sub[i + k - 1] /\ b[k] = sub[j + k - 1]
      BY <1>4, <1>6
    <3> QED BY Zenon, <3>1, <3>2, <3>3
  <2> QED BY <2>1, <1>4, <1>6, SameSeqs
<1> QED BY Zenon, <1>3, <1>5, <1>6

\* What the first capture has captured.
LEMMA FirstIs ==
  ASSUME NEW sub, NEW pat, NEW lo, NEW cut, NEW q, NEW at, NEW caps, NEW waits, At(sub, pat, lo, cut, q, at, caps, waits),
         pat[q].op = "%1"
  PROVE  /\ 1 \in DOMAIN caps \ OpenIn(caps) /\ caps[1] = CapturedOf(pat, cut)[1]
         /\ caps[1].init \in Nat /\ caps[1].len \in Nat \cup {Position}
<1>1. /\ Usable(pat) /\ q \in 1 .. Len(pat)
  BY DEF At
<1>2. Rising(cut, q - 1) /\ caps = CapsAt(pat, cut, q - 1) /\ q - 1 \in 0 .. Len(pat) /\ Len(pat) \in Nat
  BY AtRises
<1>3. PICK h : h = Nth(pat, 1)
  OBVIOUS
<1>4. /\ 1 \in 1 .. Rank(pat, q - 1) /\ h \in 1 .. q - 1
      /\ pat[h].op = "()" \/ (pat[h].op = "(" /\ CloseOf(pat, h) \in 1 .. q - 1)
  BY <1>1, <1>3, FirstClosed
<1>5. /\ DOMAIN caps = 1 .. Rank(pat, q - 1) /\ caps[1] = CaptureAt(pat, cut, q - 1, 1)
      /\ OpenIn(caps) = {l \in 1 .. Rank(pat, q - 1) : pat[Nth(pat, l)].op = "(" /\ CloseOf(pat, Nth(pat, l)) > q - 1}
  BY <1>1, <1>2, <1>4, CapsAre
<1>6. ~(pat[h].op = "(" /\ CloseOf(pat, h) > q - 1)
  BY <1>1, <1>2, <1>4
<1>7. 1 \in DOMAIN caps \ OpenIn(caps)
  BY <1>3, <1>4, <1>5, <1>6
<1>8. 1 \in 1 .. Cardinality(BeginsOf(pat))
  <2>1. q - 1 \in Nat /\ Len(pat) \in Nat /\ q - 1 <= Len(pat) /\ Len(pat) <= Len(pat)
    BY <1>1, <1>2
  <2>2. Rank(pat, q - 1) <= Rank(pat, Len(pat)) /\ Rank(pat, q - 1) \in Nat /\ Rank(pat, Len(pat)) \in Nat
    BY <2>1, <1>1, RankGrows
  <2>3. Cardinality(BeginsOf(pat)) = Rank(pat, Len(pat))
    BY <1>1, <1>2, RankNext
  <2> QED BY <2>2, <2>3, <1>4
<1>9. PICK la, lb : /\ la = IF pat[h].op = "()" THEN Position
                              ELSE IF CloseOf(pat, h) <= q - 1 THEN cut[CloseOf(pat, h)] - cut[h] ELSE Unfinished
                    /\ lb = IF pat[h].op = "()" THEN Position ELSE cut[CloseOf(pat, h)] - cut[h]
  OBVIOUS
<1>10. la = lb
  <2>1. pat[h].op = "()" \/ CloseOf(pat, h) <= q - 1
    BY <1>1, <1>2, <1>4
  <2> QED BY <2>1, <1>9
<1>11. caps[1] = [init |-> cut[h], len |-> la]
  BY Zenon, <1>3, <1>5, <1>9 DEF CaptureAt
<1>12. CapturedOf(pat, cut)[1] = [init |-> cut[h], len |-> lb]
  <2>1. CapturedOf(pat, cut)[1] =
          [init |-> cut[Nth(pat, 1)],
           len |-> IF pat[Nth(pat, 1)].op = "()" THEN Position ELSE cut[CloseOf(pat, Nth(pat, 1))] - cut[Nth(pat, 1)]]
    BY <1>8 DEF CapturedOf
  <2> QED BY Zenon, <2>1, <1>3, <1>9
<1>13. caps[1].init \in Nat /\ caps[1].len \in Nat \cup {Unfinished, Position}
  BY <1>1, <1>2, <1>4, <1>5, CaptureIs
<1>14. caps[1].len # Unfinished
  BY <1>7 DEF OpenIn
<1> QED BY <1>7, <1>10, <1>11, <1>12, <1>13, <1>14

\* match_capture.
LEMMA CapturePart ==
  ASSUME NEW sub, NEW pat, NEW lo, NEW cut, NEW q, NEW at, NEW caps, NEW waits, At(sub, pat, lo, cut, q, at, caps, waits),
         pat[q].op = "%1"
  PROVE  Walks(sub, pat, lo, AfterPart(sub, pat[q], at, q, caps, waits))
<1>1. /\ Usable(pat) /\ Len(sub) \in Nat /\ q \in 1 .. Len(pat) /\ at = cut[q - 1] /\ at \in Nat /\ at <= Len(sub) + 1
      /\ Faces(sub, pat, lo, cut, q, caps, waits, Nat) /\ pat[q].op \notin {"(", "()", ")"}
  BY DEF At
<1>2. /\ 1 \in DOMAIN caps \ OpenIn(caps) /\ caps[1] = CapturedOf(pat, cut)[1]
      /\ caps[1].init \in Nat /\ caps[1].len \in Nat \cup {Position}
  BY FirstIs
<1>3. PICK i \in Nat : i = caps[1].init
  BY <1>2
<1>4. PICK l \in Nat \cup {Position} : l = caps[1].len
  BY <1>2
<1>5. PICK again \in BOOLEAN : again = (l # Position /\ l <= (Len(sub) + 1) - at /\ SameChars(sub, i, at, l))
  OBVIOUS
<1>6. AfterPart(sub, pat[q], at, q, caps, waits)
        = IF again THEN Along(at + l, q, caps, <<>> \o waits) ELSE Failed(at, q, caps, waits)
  <2>1. AfterPart(sub, pat[q], at, q, caps, waits) = AfterCapture(sub, 1, at, q, caps, waits)
    BY <1>1 DEF AfterPart
  <2>2. again = (/\ caps[1].len # Position /\ caps[1].len <= (Len(sub) + 1) - at
                 /\ \A k \in 0 .. caps[1].len - 1 : sub[caps[1].init + k] = sub[at + k])
    BY <1>3, <1>4, <1>5 DEF SameChars
  <2>3. AfterCapture(sub, 1, at, q, caps, waits) =
          IF again THEN Along(at + caps[1].len, q, caps, <<>> \o waits) ELSE Failed(at, q, caps, waits)
    BY Zenon, <2>2, <1>2 DEF AfterCapture
  <2> QED BY Zenon, <2>1, <2>3, <1>4
<1>7. ASSUME NEW n \in Nat
      PROVE  MeansOf(sub, pat, q, at, at + n, cut) <=> l # Position /\ Chars(sub, at, n) = Chars(sub, i, l)
  <2>1. MeansOf(sub, pat, q, at, at + n, cut) <=> Repeats(sub, CapturedOf(pat, cut)[1], at, at + n)
    BY DEF MeansOf
  <2>2. Repeats(sub, caps[1], at, at + n)
          <=> caps[1].len # Position /\ Chars(sub, at, n) = Chars(sub, caps[1].init, caps[1].len)
    <3>1. (at + n) - 1 = at + n - 1
      BY SMTT(60), <1>1
    <3> QED BY Zenon, <3>1 DEF Repeats, Chars
  <2> QED BY <2>1, <2>2, <1>2, <1>3, <1>4
<1>8. ASSUME NEW n \in Nat
      PROVE  at + n \in Fitting(sub, pat, cut, q) <=> again /\ n = l
  <2>1. at + n \in Fitting(sub, pat, cut, q) <=> at + n <= Len(sub) + 1 /\ MeansOf(sub, pat, q, at, at + n, cut)
    <3>1. at + n \in at .. Len(sub) + 1 <=> at + n <= Len(sub) + 1
      BY <1>1
    <3> QED BY <3>1, <1>1 DEF Fitting
  <2>2. CASE l = Position
    BY <2>1, <2>2, <1>5, <1>7
  <2>3. CASE l # Position
    <3>1. l \in Nat
      BY <2>3
    <3>2. Chars(sub, at, n) = Chars(sub, i, l) <=> n = l /\ SameChars(sub, i, at, l)
      BY SMTT(60), <3>1, <1>1, SamePieces
    <3>3. at + l <= Len(sub) + 1 <=> l <= (Len(sub) + 1) - at
      BY <3>1, <1>1
    <3> QED BY <2>1, <2>3, <3>2, <3>3, <1>5, <1>7
  <2> QED BY <2>2, <2>3
<1>10. ASSUME NEW j \in Nat, j \in Fitting(sub, pat, cut, q) PROVE again /\ j = at + l
  <2>1. j \in at .. Len(sub) + 1
    BY <1>1, <1>10 DEF Fitting
  <2>2. PICK n \in Nat : n = j - at /\ at + n = j
    <3>1. j - at \in Nat /\ at + (j - at) = j
      BY <2>1, <1>1
    <3> QED BY <3>1
  <2>3. again /\ n = l
    BY Zenon, <2>2, <1>8, <1>10
  <2> QED BY Zenon, <2>2, <2>3
<1>11. CASE again
  <2>1. l \in Nat
    BY <1>5, <1>11
  <2>2. at + l \in Fitting(sub, pat, cut, q)
    BY Zenon, <2>1, <1>8, <1>11
  <2>3. \A j \in Nat : j \in Fitting(sub, pat, cut, q) => j = at + l
    BY <1>10
  <2>4. Walks(sub, pat, lo, Along(at + l, q, caps, <<>> \o waits))
    BY <2>2, <2>3, <1>1, Proceeds
  <2> QED BY Zenon, <2>4, <1>6, <1>11
<1>9. CASE ~again
  <2>1. \A j \in Nat : j \notin Fitting(sub, pat, cut, q)
    BY <1>10, <1>9
  <2>2. Walks(sub, pat, lo, Failed(at, q, caps, waits))
    BY <2>1, <1>1, FailsHere
  <2> QED BY Zenon, <2>2, <1>6, <1>9
<1> QED BY <1>11, <1>9

\* Of a and b, up to the next character.
LEMMA SurplusOn ==
  ASSUME NEW sub, NEW from \in Int, NEW n \in Int, NEW m, m = n + 1, from <= m
  PROVE  /\ Surplus(sub, from, n, "a", "b") \in Int
         /\ n < from => Surplus(sub, from, n, "a", "b") = 0
         /\ Surplus(sub, from, m, "a", "b")
              = Surplus(sub, from, n, "a", "b") + (IF sub[m] = "a" THEN 1 ELSE IF sub[m] = "b" THEN -1 ELSE 0)
<1>1. PICK A, B : A = {i \in Int : sub[i] = "a"} /\ B = {i \in Int : sub[i] = "b"}
  OBVIOUS
<1>2. ASSUME NEW k \in Int
      PROVE  Surplus(sub, from, k, "a", "b") = Cardinality(Within(A, from, k)) - Cardinality(Within(B, from, k))
  <2>1. {i \in from .. k : sub[i] = "a"} = Within(A, from, k) /\ {i \in from .. k : sub[i] = "b"} = Within(B, from, k)
    BY <1>1 DEF Within
  <2> QED BY Zenon, <2>1 DEF Surplus
<1>3. /\ Cardinality(Within(A, from, n)) \in Nat /\ Cardinality(Within(B, from, n)) \in Nat
      /\ Cardinality(Within(A, from, m)) = Cardinality(Within(A, from, n)) + (IF m \in A THEN 1 ELSE 0)
      /\ Cardinality(Within(B, from, m)) = Cardinality(Within(B, from, n)) + (IF m \in B THEN 1 ELSE 0)
  BY ONLY from \in Int, n \in Int, m = n + 1, from <= m, CountOn
<1>4. n < from => Cardinality(Within(A, from, n)) = 0 /\ Cardinality(Within(B, from, n)) = 0
  BY NoneCounted
<1>5. m \in Int /\ (m \in A <=> sub[m] = "a") /\ (m \in B <=> sub[m] = "b")
  BY <1>1
<1>6. PICK a \in Nat, b \in Nat : a = Cardinality(Within(A, from, n)) /\ b = Cardinality(Within(B, from, n))
  BY <1>3
<1>7. Surplus(sub, from, n, "a", "b") = a - b
  BY <1>2, <1>6
<1>8. Surplus(sub, from, m, "a", "b") = (a + (IF m \in A THEN 1 ELSE 0)) - (b + (IF m \in B THEN 1 ELSE 0))
  BY <1>2, <1>3, <1>5, <1>6
<1> QED BY <1>4, <1>5, <1>6, <1>7, <1>8

\* Where a balanced piece may end.
Balanced(sub, at, to) ==
  /\ to - at >= 2 /\ sub[at] = "a" /\ Surplus(sub, at, to - 1, "a", "b") = 0
  /\ \A j \in at .. to - 2 : Surplus(sub, at, j, "a", "b") > 0

LEMMA BalancedAt ==
  ASSUME NEW sub, Len(sub) \in Nat, NEW at \in Nat, NEW to \in Nat, to <= Len(sub) + 1, Balanced(sub, at, to)
  PROVE  /\ Entry(sub, at, {"a"}) /\ to - 1 \in Closings(sub, at, "a", "b") /\ to - 1 \in Nat
         /\ \A i \in Closings(sub, at, "a", "b") : to - 1 <= i
<1>1. PICK o \in Nat : o = to - 1 /\ to = o + 1 /\ at + 1 <= o /\ o <= Len(sub)
  <2>1. to - 1 \in Nat /\ to = (to - 1) + 1 /\ at + 1 <= to - 1 /\ to - 1 <= Len(sub)
    BY DEF Balanced
  <2> QED BY <2>1
<1>2. PICK h \in Nat : h = o - 1 /\ o = h + 1 /\ at <= h /\ h = to - 2
  <2>1. o - 1 \in Nat /\ o = (o - 1) + 1 /\ at <= o - 1 /\ o - 1 = to - 2
    BY <1>1
  <2> QED BY <2>1
<1>3. Surplus(sub, at, o, "a", "b") = 0 /\ \A j \in at .. h : Surplus(sub, at, j, "a", "b") > 0
  BY <1>1, <1>2 DEF Balanced
<1>4. /\ Surplus(sub, at, h, "a", "b") \in Int
      /\ Surplus(sub, at, o, "a", "b")
           = Surplus(sub, at, h, "a", "b") + (IF sub[o] = "a" THEN 1 ELSE IF sub[o] = "b" THEN -1 ELSE 0)
  <2>1. at \in Int /\ h \in Int /\ o = h + 1 /\ at <= o
    BY <1>1, <1>2
  <2> QED BY ONLY <2>1, SurplusOn
<1>5. Surplus(sub, at, h, "a", "b") > 0
  BY <1>2, <1>3
<1>6. sub[o] = "b"
  BY <1>3, <1>4, <1>5
<1>7. o \in Closings(sub, at, "a", "b")
  BY <1>1, <1>3, <1>6 DEF Closings
<1>8. ASSUME NEW i \in Closings(sub, at, "a", "b") PROVE o <= i
  <2>1. i \in at + 1 .. Len(sub) /\ Surplus(sub, at, i, "a", "b") = 0
    BY DEF Closings
  <2>2. ~(i \in at .. h)
    BY <2>1, <1>3
  <2> QED BY <2>1, <2>2, <1>1, <1>2
<1>9. Entry(sub, at, {"a"})
  BY <1>1 DEF Balanced, Entry
<1> QED BY <1>1, <1>7, <1>8, <1>9

LEMMA FirstBalanced ==
  ASSUME NEW sub, Len(sub) \in Nat, NEW at \in Nat, Entry(sub, at, {"a"}), Closings(sub, at, "a", "b") # {}
  PROVE  /\ FirstOf(Closings(sub, at, "a", "b")) \in Nat /\ Balanced(sub, at, 1 + FirstOf(Closings(sub, at, "a", "b")))
         /\ 1 + FirstOf(Closings(sub, at, "a", "b")) <= Len(sub) + 1
         /\ at <= FirstOf(Closings(sub, at, "a", "b"))
<1>1. PICK C : C = Closings(sub, at, "a", "b")
  OBVIOUS
<1>2. \A i \in C : i \in Nat /\ at + 1 <= i /\ i <= Len(sub) /\ Surplus(sub, at, i, "a", "b") = 0
  BY <1>1 DEF Closings
<1>3. C \subseteq Nat /\ C # {}
  BY <1>1, <1>2
<1>4. \E i \in C : \A j \in C : i <= j
  BY ONLY <1>3, Least
<1>5. FirstOf(C) \in C /\ \A j \in C : FirstOf(C) <= j
  BY ONLY <1>4 DEF FirstOf
<1>6. PICK f \in Nat : f = FirstOf(C) /\ f \in C /\ at + 1 <= f /\ f <= Len(sub) /\ \A j \in C : f <= j
  BY <1>2, <1>5
<1>7. sub[at] = "a" /\ at < Len(sub) + 1
  BY DEF Entry
<1>8. PICK z \in Int : z = at - 1 /\ at = z + 1
  <2>1. at - 1 \in Int /\ at = (at - 1) + 1
    OBVIOUS
  <2> QED BY <2>1
<1>9. Surplus(sub, at, at, "a", "b") = 1
  <2>1. /\ at \in Int /\ z < at /\ at <= at
    BY <1>8
  <2>2. /\ Surplus(sub, at, z, "a", "b") \in Int /\ Surplus(sub, at, z, "a", "b") = 0
        /\ Surplus(sub, at, at, "a", "b")
             = Surplus(sub, at, z, "a", "b") + (IF sub[at] = "a" THEN 1 ELSE IF sub[at] = "b" THEN -1 ELSE 0)
    BY ONLY <2>1, <1>8, z \in Int, SurplusOn
  <2> QED BY <2>2, <1>7
<1> DEFINE T == {d \in Nat : at + d < f => Surplus(sub, at, at + d, "a", "b") > 0}
<1>10. 0 \in T
  BY <1>9
<1>11. ASSUME NEW d \in Nat, d \in T PROVE d + 1 \in T
  <2> SUFFICES ASSUME at + (d + 1) < f PROVE Surplus(sub, at, at + (d + 1), "a", "b") > 0
    OBVIOUS
  <2>1. PICK h \in Nat, o \in Nat : h = at + d /\ o = at + (d + 1) /\ o = h + 1 /\ at <= o /\ o < f
    <3>1. at + d \in Nat /\ at + (d + 1) \in Nat /\ at + (d + 1) = (at + d) + 1 /\ at <= at + (d + 1)
      OBVIOUS
    <3> QED BY <3>1
  <2>2. Surplus(sub, at, h, "a", "b") > 0
    BY <2>1, <1>6, <1>11
  <2>3. /\ Surplus(sub, at, h, "a", "b") \in Int
        /\ Surplus(sub, at, o, "a", "b")
             = Surplus(sub, at, h, "a", "b") + (IF sub[o] = "a" THEN 1 ELSE IF sub[o] = "b" THEN -1 ELSE 0)
    <3>1. at \in Int /\ h \in Int
      OBVIOUS
    <3> QED BY ONLY <3>1, <2>1, SurplusOn
  <2>4. ASSUME Surplus(sub, at, o, "a", "b") = 0 PROVE FALSE
    <3>1. sub[o] = "b"
      BY <2>2, <2>3, <2>4
    <3>2. o \in at + 1 .. Len(sub)
      BY <2>1, <1>6
    <3>3. o \in C
      BY <3>1, <3>2, <2>4, <1>1 DEF Closings
    <3> QED BY <3>3, <2>1, <1>6
  <2>5. Surplus(sub, at, o, "a", "b") > 0
    BY <2>2, <2>3, <2>4
  <2> QED BY Zenon, <2>1, <2>5
<1>12. ASSUME NEW j \in at .. f - 1 PROVE Surplus(sub, at, j, "a", "b") > 0
  <2>1. PICK d \in Nat : d = j - at /\ at + d = j /\ j < f
    <3>1. j - at \in Nat /\ at + (j - at) = j /\ j < f
      BY <1>6
    <3> QED BY <3>1
  <2>2. d \in T
    <3> HIDE DEF T
    <3>1. d \in 0 .. d /\ \A h \in 0 .. d - 1 : h \in T => h + 1 \in T
      BY <1>11
    <3> QED BY <3>1, <1>10, Induct
  <2> QED BY <2>1, <2>2
<1>13. Balanced(sub, at, 1 + f)
  <2>1. (1 + f) - at >= 2 /\ (1 + f) - 1 = f /\ (1 + f) - 2 = f - 1
    BY <1>6
  <2>2. Surplus(sub, at, f, "a", "b") = 0
    BY <1>2, <1>6
  <2> QED BY <2>1, <2>2, <1>7, <1>12 DEF Balanced
<1> QED BY <1>1, <1>6, <1>13

\* matchbalance.
LEMMA BalancePart ==
  ASSUME NEW sub, NEW pat, NEW lo, NEW cut, NEW q, NEW at, NEW caps, NEW waits, At(sub, pat, lo, cut, q, at, caps, waits),
         pat[q].op = "%b"
  PROVE  Walks(sub, pat, lo, AfterPart(sub, pat[q], at, q, caps, waits))
<1>1. /\ Usable(pat) /\ Len(sub) \in Nat /\ q \in 1 .. Len(pat) /\ at = cut[q - 1] /\ at \in Nat /\ at <= Len(sub) + 1
      /\ Faces(sub, pat, lo, cut, q, caps, waits, Nat) /\ pat[q].op \notin {"(", "()", ")"}
  BY DEF At
<1>2. ASSUME NEW to \in Nat PROVE to \in Fitting(sub, pat, cut, q) <=> at <= to /\ to <= Len(sub) + 1 /\ Balanced(sub, at, to)
  <2>1. MeansOf(sub, pat, q, at, to, cut) <=> Balanced(sub, at, to)
    BY DEF MeansOf, Balanced
  <2>2. to \in at .. Len(sub) + 1 <=> at <= to /\ to <= Len(sub) + 1
    BY <1>1
  <2> QED BY <2>1, <2>2, <1>1 DEF Fitting
<1>3. AfterPart(sub, pat[q], at, q, caps, waits) = AfterBalance(sub, "a", "b", at, q, caps, waits)
  BY DEF AfterPart
<1>4. PICK C : C = Closings(sub, at, "a", "b")
  OBVIOUS
<1>5. CASE ~Entry(sub, at, {"a"}) \/ C = {}
  <2>1. ASSUME NEW j \in Nat, j \in Fitting(sub, pat, cut, q) PROVE FALSE
    <3>1. j <= Len(sub) + 1 /\ Balanced(sub, at, j)
      BY <1>2, <2>1
    <3>2. Entry(sub, at, {"a"}) /\ j - 1 \in Closings(sub, at, "a", "b")
      BY <3>1, <1>1, BalancedAt
    <3> QED BY Zenon, <3>2, <1>4, <1>5
  <2>2. Walks(sub, pat, lo, Failed(at, q, caps, waits))
    BY <2>1, <1>1, FailsHere
  <2> QED BY Zenon, <2>2, <1>3, <1>4, <1>5 DEF AfterBalance
<1>6. CASE Entry(sub, at, {"a"}) /\ C # {}
  <2>1. PICK f \in Nat : f = FirstOf(C) /\ Balanced(sub, at, 1 + f) /\ 1 + f <= Len(sub) + 1 /\ at <= f
    <3>1. FirstOf(C) \in Nat /\ Balanced(sub, at, 1 + FirstOf(C)) /\ 1 + FirstOf(C) <= Len(sub) + 1 /\ at <= FirstOf(C)
      BY <1>1, <1>4, <1>6, FirstBalanced
    <3> QED BY <3>1
  <2>2. 1 + f \in Nat /\ at <= 1 + f
    BY <2>1, <1>1
  <2>3. 1 + f \in Fitting(sub, pat, cut, q)
    BY <2>1, <2>2, <1>2
  <2>4. ASSUME NEW j \in Nat, j \in Fitting(sub, pat, cut, q) PROVE j = 1 + f
    <3>1. j <= Len(sub) + 1 /\ Balanced(sub, at, j)
      BY <1>2, <2>4
    <3>2. j - 1 \in Closings(sub, at, "a", "b") /\ j - 1 \in Nat /\ \A i \in Closings(sub, at, "a", "b") : j - 1 <= i
      BY <3>1, <1>1, BalancedAt
    <3>3. (1 + f) - 1 \in Closings(sub, at, "a", "b") /\ \A i \in Closings(sub, at, "a", "b") : (1 + f) - 1 <= i
      BY <2>1, <2>2, <1>1, BalancedAt
    <3>4. j - 1 <= (1 + f) - 1 /\ (1 + f) - 1 <= j - 1
      BY ONLY <3>2, <3>3
    <3> QED BY <3>2, <3>4
  <2>5. Walks(sub, pat, lo, Along(1 + f, q, caps, <<>> \o waits))
    BY <2>3, <2>4, <1>1, Proceeds
  <2> QED BY Zenon, <2>1, <2>5, <1>3, <1>4, <1>6 DEF AfterBalance
<1> QED BY <1>5, <1>6

-----------------------------------------------------------------------------
(* The steps of the matcher.                                                 *)

LEMMA WalkPart ==
  ASSUME NEW sub, NEW pat, Usable(pat), Len(sub) \in Nat, NEW lo, lo >= 1, NEW at, NEW q, q <= Len(pat), NEW caps, NEW waits,
         Walk(sub, pat, lo, "on", at, q, caps, waits)
  PROVE  Walks(sub, pat, lo, AfterPart(sub, pat[q], at, q, caps, waits))
<1>1. PICK cut : At(sub, pat, lo, cut, q, at, caps, waits)
  BY AtPart
<1>2. q \in 1 .. Len(pat)
  BY <1>1 DEF At
<1>3. pat[q].op \in Ops
  BY <1>2 DEF Usable, Shape
<1>4. CASE pat[q].op = "set"
  BY <1>1, <1>4, SinglePart
<1>5. CASE pat[q].op \in {"(", "()"}
  BY <1>1, <1>5, StartPart
<1>6. CASE pat[q].op = ")"
  BY <1>1, <1>6, EndPart
<1>7. CASE pat[q].op = "%1"
  BY <1>1, <1>7, CapturePart
<1>8. CASE pat[q].op = "%b"
  BY <1>1, <1>8, BalancePart
<1>9. CASE pat[q].op \in {"%f", "$", "^"}
  BY <1>1, <1>9, TestPart
<1> QED BY <1>3, <1>4, <1>5, <1>6, <1>7, <1>8, <1>9 DEF Ops

\* An activation has its turn; what is left of its part is in `ends'.
Returns(sub, pat, lo, cut, c, caps, rest) ==
  /\ Usable(pat) /\ Len(sub) \in Nat /\ c \in Waits /\ c.p \in 1 .. Len(pat)
  /\ cut[c.p - 1] \in Nat /\ cut[c.p] \in Nat /\ cut[c.p - 1] <= cut[c.p] /\ cut[c.p] <= Len(sub) + 1
  /\ Before(sub, pat, lo, cut, c.p, caps, rest)
  /\ Faces(sub, pat, lo, cut, c.p, caps, rest, {j \in Nat : Untried(c, j)})
  /\ WaitFits(sub, pat, cut[c.p - 1], cut[c.p], c) /\ cut[c.p] \in Fitting(sub, pat, cut, c.p)

LEMMA Returning ==
  ASSUME NEW sub, NEW pat, Usable(pat), Len(sub) \in Nat, NEW lo, NEW at, NEW q, NEW caps, NEW waits,
         Walk(sub, pat, lo, "back", at, q, caps, waits), waits # <<>>, NEW c, c = Head(waits)
  PROVE  \E cut : Returns(sub, pat, lo, cut, c, UndoneIn(caps, c), Tail(waits))
<1>1. PICK cut : \E i \in 0 .. Len(pat) :
        /\ Base(sub, pat, lo, cut, i, caps, waits) /\ Bounded(pat, i, waits)
        /\ \A b \in CutsOf(sub, pat, lo) : LeftTo(waits, cut, b)
  BY DEF Walk
<1>2. PICK i \in 0 .. Len(pat) :
        /\ Base(sub, pat, lo, cut, i, caps, waits) /\ Bounded(pat, i, waits)
        /\ \A b \in CutsOf(sub, pat, lo) : LeftTo(waits, cut, b)
  BY <1>1
<1>3. /\ c \in Waits /\ c.p \in 1 .. i /\ c.p \in 1 .. Len(pat)
      /\ Base(sub, pat, lo, cut, c.p - 1, UndoneIn(caps, c), Tail(waits)) /\ Bounded(pat, c.p - 1, Tail(waits))
      /\ WaitFits(sub, pat, cut[c.p - 1], cut[c.p], c) /\ cut[c.p - 1] <= cut[c.p]
      /\ MeansOf(sub, pat, c.p, cut[c.p - 1], cut[c.p], cut)
      /\ \A b : LeftTo(waits, cut, b) => (Agree(b, cut, c.p - 1) /\ Untried(c, b[c.p])) \/ LeftTo(Tail(waits), cut, b)
  BY <1>2, Resume
<1>4. Len(pat) \in Nat /\ lo \in Nat
  BY <1>2 DEF Usable, Base
<1>5. \A k \in 0 .. Len(pat) : cut[k] \in Nat /\ lo <= cut[k] /\ cut[k] <= Len(sub) + 1
  BY <1>2, <1>4, BaseRises
<1>6. PICK o \in 1 .. Len(pat) : o = c.p /\ o \in 0 .. Len(pat) /\ o - 1 \in 0 .. Len(pat)
  <2>1. \A k \in 1 .. Len(pat) : k \in 0 .. Len(pat) /\ k - 1 \in 0 .. Len(pat)
    BY <1>4
  <2> QED BY <2>1, <1>3
<1>7. cut[o - 1] \in Nat /\ cut[o] \in Nat /\ cut[o] <= Len(sub) + 1
  BY <1>5, <1>6
<1>8. ASSUME NEW b \in CutsOf(sub, pat, lo)
      PROVE  (Agree(b, cut, o - 1) /\ b[o] \in {j \in Nat : Untried(c, j)}) \/ LeftTo(Tail(waits), cut, b)
  <2>1. (Agree(b, cut, o - 1) /\ Untried(c, b[o])) \/ LeftTo(Tail(waits), cut, b)
    BY Zenon, <1>2, <1>3, <1>6
  <2>2. Agree(b, cut, o - 1) => b[o] \in Nat
    BY <1>4, <1>6, CutPart
  <2> QED BY <2>1, <2>2
<1>9. cut[o] \in Fitting(sub, pat, cut, o)
  <2>1. cut[o - 1] <= cut[o] /\ MeansOf(sub, pat, o, cut[o - 1], cut[o], cut)
    BY Zenon, <1>3, <1>6
  <2>2. cut[o] \in cut[o - 1] .. Len(sub) + 1
    BY <2>1, <1>7
  <2> QED BY <2>1, <2>2 DEF Fitting
<1>10. Faces(sub, pat, lo, cut, o, UndoneIn(caps, c), Tail(waits), {j \in Nat : Untried(c, j)})
       /\ Before(sub, pat, lo, cut, o, UndoneIn(caps, c), Tail(waits))
  BY Zenon, <1>3, <1>6, <1>8 DEF Faces, Before
<1>11. Returns(sub, pat, lo, cut, c, UndoneIn(caps, c), Tail(waits))
  BY Zenon, <1>3, <1>6, <1>7, <1>9, <1>10 DEF Returns
<1> QED BY <1>11

\* max_expand gives up one repetition.
LEMMA MaxTurn ==
  ASSUME NEW sub, NEW pat, NEW lo, NEW cut, NEW c, NEW caps, NEW rest, Returns(sub, pat, lo, cut, c, caps, rest),
         c.kind = "max", NEW at, NEW o
  PROVE  Walks(sub, pat, lo, AfterTurn(sub, pat, at, o, caps, c, rest))
<1>1. PICK q \in 1 .. Len(pat) : q = c.p
  BY DEF Returns
<1>2. PICK a \in Nat, e \in Nat : a = cut[q - 1] /\ e = cut[q] /\ a <= e /\ e <= Len(sub) + 1
  BY <1>1 DEF Returns
<1>3. /\ Usable(pat) /\ Len(sub) \in Nat /\ c \in Waits /\ c.s \in Nat /\ c.n \in Nat
      /\ Before(sub, pat, lo, cut, q, caps, rest)
      /\ Faces(sub, pat, lo, cut, q, caps, rest, {j \in Nat : Untried(c, j)}) /\ e \in Fitting(sub, pat, cut, q)
      /\ WaitFits(sub, pat, a, e, c)
  BY <1>1, <1>2 DEF Returns, Waits
<1>4. /\ pat[q].op = "set" /\ pat[q].rep \in {"*", "+"}
      /\ c.s = a + (IF pat[q].rep = "+" THEN 1 ELSE 0) /\ c.s + c.n < e
  BY <1>1, <1>3 DEF WaitFits
<1>5. PICK to \in Nat : to = c.s + c.n /\ a <= to /\ c.s <= to /\ to < e
  <2>1. c.s + c.n \in Nat /\ a <= c.s + c.n /\ c.s <= c.s + c.n
    BY <1>3, <1>4
  <2> QED BY <2>1, <1>4
<1>6. pat[q].op \notin {"(", "()", ")"} /\ pat[q].rep \in Reps
  BY <1>4 DEF Reps
<1>13. \A j \in Nat : j \in Fitting(sub, pat, cut, q) <=>
        /\ a <= j /\ j <= Len(sub) + 1 /\ AllIn(sub, a, j, pat[q].set)
        /\ pat[q].rep = "1" => j = a + 1
        /\ pat[q].rep = "?" => j = a \/ j = a + 1
        /\ pat[q].rep = "+" => j >= a + 1
  <2>1. pat[q].op = "set" /\ a <= Len(sub) + 1
    BY <1>2, <1>3, <1>4
  <2> QED BY SMTT(60), <2>1, <1>2, <1>3, <1>6, SetFits
<1>7. AllIn(sub, a, e, pat[q].set)
  BY <1>2, <1>3, <1>13
<1>8. AllIn(sub, a, to, pat[q].set)
  BY <1>5, <1>7 DEF AllIn
<1>9. to \in Fitting(sub, pat, cut, q)
  <2>1. to <= Len(sub) + 1 /\ (pat[q].rep = "+" => to >= a + 1)
    BY SMTT(60), <1>2, <1>3, <1>4, <1>5
  <2> QED BY <2>1, <1>4, <1>5, <1>8, <1>13
<1>10. ASSUME NEW j \in {h \in Nat : Untried(c, h)}, j \in Fitting(sub, pat, cut, q) PROVE j \in c.s .. to
  <2>1. a <= j /\ (pat[q].rep = "+" => j >= a + 1)
    BY <1>10, <1>13
  <2>2. j <= c.s + c.n
    BY DEF Untried
  <2> QED BY <2>1, <2>2, <1>2, <1>3, <1>4, <1>5
<1>11. CASE c.n = 0
  <2>1. \A j \in {h \in Nat : Untried(c, h)} : j \in Fitting(sub, pat, cut, q) => j = to
    BY <1>3, <1>5, <1>10, <1>11
  <2>2. Walks(sub, pat, lo, Along(to, q, caps, rest))
    BY <2>1, <1>3, <1>6, <1>9, Proceeds
  <2>3. AfterTurn(sub, pat, at, o, caps, c, rest) = Along(to, q, caps, rest)
    BY <1>1, <1>5, <1>11 DEF AfterTurn
  <2> QED BY Zenon, <2>2, <2>3
<1>12. CASE c.n # 0
  <2>1. PICK d : d = [c EXCEPT !.n = c.n - 1]
    OBVIOUS
  <2>2. d \in Waits /\ d.p = q /\ d.kind = "max" /\ d.s = c.s /\ d.n = c.n - 1
    BY <2>1, <1>1, <1>3, <1>12 DEF Waits
  <2>3. WaitFits(sub, pat, a, to, d)
    BY <2>2, <1>3, <1>4, <1>5 DEF WaitFits
  <2>4. ASSUME NEW j \in {h \in Nat : Untried(c, h)}, j \in Fitting(sub, pat, cut, q) PROVE j = to \/ Untried(d, j)
    <3>1. j \in c.s .. to
      BY <2>4, <1>10
    <3>2. d.s + d.n = to - 1
      BY SMTT(60), <2>2, <1>3, <1>5
    <3>3. j = to \/ j <= to - 1
      BY <3>1, <1>3
    <3> QED BY <3>2, <3>3, <2>2 DEF Untried
  <2>5. caps = CapsAt(pat, Recut(cut, q, to), q)
    BY <1>3, <1>6, <1>9, KeepsCaps
  <2>6. WaitFits(sub, pat, cut[q - 1], to, d)
    BY Zenon, <2>3, <1>2
  <2>7. Walks(sub, pat, lo, Along(to, q, caps, <<d>> \o rest))
    BY <2>2, <2>4, <2>5, <2>6, <1>3, <1>9, Leaving
  <2>8. AfterTurn(sub, pat, at, o, caps, c, rest) = Along(to, q, caps, <<d>> \o rest)
    BY <2>1, <1>1, <1>5, <1>12 DEF AfterTurn
  <2> QED BY Zenon, <2>7, <2>8
<1> QED BY <1>11, <1>12

\* What is optional is left out, or a lazy repetition takes one more.
LEMMA MinTurn ==
  ASSUME NEW sub, NEW pat, NEW lo, NEW cut, NEW c, NEW caps, NEW rest, Returns(sub, pat, lo, cut, c, caps, rest),
         c.kind = "min", NEW at, NEW o
  PROVE  Walks(sub, pat, lo, AfterTurn(sub, pat, at, o, caps, c, rest))
<1>1. PICK q \in 1 .. Len(pat) : q = c.p
  BY DEF Returns
<1>2. PICK a \in Nat, e \in Nat : a = cut[q - 1] /\ e = cut[q] /\ a <= e /\ e <= Len(sub) + 1
  BY <1>1 DEF Returns
<1>3. /\ Usable(pat) /\ Len(sub) \in Nat /\ c \in Waits /\ c.s \in Nat /\ c.n \in Nat
      /\ Before(sub, pat, lo, cut, q, caps, rest)
      /\ Faces(sub, pat, lo, cut, q, caps, rest, {j \in Nat : Untried(c, j)}) /\ e \in Fitting(sub, pat, cut, q)
      /\ WaitFits(sub, pat, a, e, c)
  BY <1>1, <1>2 DEF Returns, Waits
<1>4. /\ pat[q].op = "set"
      /\ \/ c.n = 0 /\ pat[q].rep = "?" /\ c.s = a /\ e = a + 1
         \/ c.n = 1 /\ pat[q].rep = "-" /\ c.s = e /\ Entry(sub, e, pat[q].set)
  <2>1. \/ c.n = 0 /\ pat[c.p].op = "set" /\ pat[c.p].rep = "?" /\ c.s = a /\ e = c.s + 1
        \/ c.n = 1 /\ pat[c.p].op = "set" /\ pat[c.p].rep = "-" /\ c.s = e /\ Entry(sub, e, pat[c.p].set)
    BY <1>3 DEF WaitFits
  <2>2. pat[c.p] = pat[q]
    BY <1>1
  <2>3. CASE c.n = 0 /\ pat[c.p].op = "set" /\ pat[c.p].rep = "?" /\ c.s = a /\ e = c.s + 1
    BY <2>2, <2>3
  <2>4. CASE c.n = 1 /\ pat[c.p].op = "set" /\ pat[c.p].rep = "-" /\ c.s = e /\ Entry(sub, e, pat[c.p].set)
    BY Zenon, <2>2, <2>4
  <2> QED BY Zenon, <2>1, <2>3, <2>4
<1>5. pat[q].op \notin {"(", "()", ")"} /\ pat[q].rep \in Reps
  BY <1>4 DEF Reps
<1>8. \A j \in Nat : j \in Fitting(sub, pat, cut, q) <=>
        /\ a <= j /\ j <= Len(sub) + 1 /\ AllIn(sub, a, j, pat[q].set)
        /\ pat[q].rep = "1" => j = a + 1
        /\ pat[q].rep = "?" => j = a \/ j = a + 1
        /\ pat[q].rep = "+" => j >= a + 1
  BY SMTT(60), <1>2, <1>3, <1>4, <1>5, SetFits
<1>6. CASE c.n = 0
  <2>1. pat[q].rep = "?" /\ c.s = a /\ e = a + 1 /\ c.s + c.n = a
    BY <1>3, <1>4, <1>6
  <2>2. a \in Fitting(sub, pat, cut, q)
    <3>1. AllIn(sub, a, a, pat[q].set) /\ a <= Len(sub) + 1
      BY <1>2, <1>3 DEF AllIn
    <3> QED BY <3>1, <2>1, <1>8
  <2>3. \A j \in {h \in Nat : Untried(c, h)} : j \in Fitting(sub, pat, cut, q) => j = a
    BY <2>1, <1>6 DEF Untried
  <2>4. Walks(sub, pat, lo, Along(a, q, caps, <<>> \o rest))
    BY <2>2, <2>3, <1>3, <1>5, Proceeds
  <2>5. AfterTurn(sub, pat, at, o, caps, c, rest) = Along(a, q, caps, <<>> \o rest)
    BY <2>1, <1>1, <1>6 DEF AfterTurn
  <2> QED BY Zenon, <2>4, <2>5
<1>7. CASE c.n # 0
  <2>1. c.n = 1 /\ pat[q].rep = "-" /\ c.s = e
    BY <1>4, <1>7
  <2>2. PICK to \in Nat : to = e + 1 /\ c.s + c.n = to /\ c.s + 1 = to /\ to <= Len(sub) + 1 /\ a <= to
    <3>1. e < Len(sub) + 1
      BY <1>4, <1>7 DEF Entry
    <3>2. e + 1 \in Nat /\ c.s + c.n = e + 1 /\ c.s + 1 = e + 1 /\ e + 1 <= Len(sub) + 1 /\ a <= e + 1
      BY <2>1, <3>1, <1>2, <1>3
    <3> QED BY <3>2
  <2>3. AllIn(sub, a, to, pat[q].set)
    <3>1. AllIn(sub, a, e, pat[q].set)
      BY <1>3, <1>8
    <3>2. sub[e] \in pat[q].set
      BY <1>4, <1>7 DEF Entry
    <3>3. \A j \in a .. to - 1 : j = e \/ j \in a .. e - 1
      BY <2>2
    <3> QED BY <3>1, <3>2, <3>3 DEF AllIn
  <2>4. to \in Fitting(sub, pat, cut, q)
    BY <2>1, <2>2, <2>3, <1>8
  <2>5. ASSUME NEW j \in {h \in Nat : Untried(c, h)}, j \in Fitting(sub, pat, cut, q)
        PROVE  to <= j /\ (to < j => Entry(sub, to, pat[q].set))
    <3>1. a <= j /\ j <= Len(sub) + 1 /\ AllIn(sub, a, j, pat[q].set)
      BY <2>5, <1>8
    <3>2. j > e
      BY <2>1 DEF Untried
    <3>3. ASSUME to < j PROVE Entry(sub, to, pat[q].set)
      <4>1. to \in a .. j - 1 /\ to < Len(sub) + 1
        BY <3>1, <3>3, <2>2, <1>3
      <4> QED BY <4>1, <3>1 DEF AllIn, Entry
    <3> QED BY <3>2, <3>3, <2>2
  <2>6. CASE Entry(sub, to, pat[q].set)
    <3>1. PICK d : d = [c EXCEPT !.s = c.s + 1]
      OBVIOUS
    <3>2. d \in Waits /\ d.p = q /\ d.kind = "min" /\ d.s = to /\ d.n = 1
      BY <3>1, <2>1, <2>2, <1>1, <1>3 DEF Waits
    <3>3. WaitFits(sub, pat, cut[q - 1], to, d)
      BY <3>2, <2>1, <2>6, <1>4 DEF WaitFits
    <3>4. \A j \in {h \in Nat : Untried(c, h)} : j \in Fitting(sub, pat, cut, q) => j = to \/ Untried(d, j)
      <4>1. ASSUME NEW j \in {h \in Nat : Untried(c, h)}, j \in Fitting(sub, pat, cut, q) PROVE j = to \/ j > to
        BY <4>1, <2>5
      <4> QED BY <4>1, <3>2 DEF Untried
    <3>5. caps = CapsAt(pat, Recut(cut, q, to), q)
      BY <2>4, <1>3, <1>5, KeepsCaps
    <3>6. Walks(sub, pat, lo, Along(to, q, caps, <<d>> \o rest))
      BY <3>2, <3>3, <3>4, <3>5, <2>4, <1>3, Leaving
    <3>7. Entry(sub, c.s + 1, pat[c.p].set)
      BY <2>2, <2>6, <1>1
    <3>8. AfterTurn(sub, pat, at, o, caps, c, rest) = Along(to, q, caps, <<d>> \o rest)
      BY <3>1, <3>7, <2>1, <2>2, <1>1 DEF AfterTurn
    <3> QED BY Zenon, <3>6, <3>8
  <2>7. CASE ~Entry(sub, to, pat[q].set)
    <3>1. \A j \in {h \in Nat : Untried(c, h)} : j \in Fitting(sub, pat, cut, q) => j = to
      <4>1. ASSUME NEW j \in {h \in Nat : Untried(c, h)}, j \in Fitting(sub, pat, cut, q) PROVE j = to
        BY <4>1, <2>5, <2>7
      <4> QED BY <4>1
    <3>2. Walks(sub, pat, lo, Along(to, q, caps, <<>> \o rest))
      BY <3>1, <2>4, <1>3, <1>5, Proceeds
    <3>3. ~Entry(sub, c.s + 1, pat[c.p].set)
      BY <2>2, <2>7, <1>1
    <3>4. AfterTurn(sub, pat, at, o, caps, c, rest) = Along(to, q, caps, <<>> \o rest)
      BY <3>3, <2>1, <2>2, <1>1 DEF AfterTurn
    <3> QED BY Zenon, <3>2, <3>4
  <2> QED BY <2>6, <2>7
<1> QED BY <1>6, <1>7

LEMMA WalkBack ==
  ASSUME NEW sub, NEW pat, Usable(pat), Len(sub) \in Nat, NEW lo, NEW at, NEW q, NEW caps, NEW waits,
         Walk(sub, pat, lo, "back", at, q, caps, waits)
  PROVE  Walks(sub, pat, lo, AfterBack(sub, pat, at, q, caps, waits))
<1>1. CASE waits = <<>>
  <2>1. Walk(sub, pat, lo, "none", at, q, caps, waits)
    BY <1>1 DEF Walk
  <2>2. Walks(sub, pat, lo, <<"none", at, q, caps, waits>>)
    BY <2>1 DEF Walks
  <2> QED BY Zenon, <2>2, <1>1 DEF AfterBack
<1>2. CASE waits # <<>>
  <2>1. PICK c, held, rest : c = Head(waits) /\ held = UndoneIn(caps, c) /\ rest = Tail(waits)
    OBVIOUS
  <2>2. PICK cut : Returns(sub, pat, lo, cut, c, held, rest)
    BY <2>1, <1>2, Returning
  <2>3. AfterBack(sub, pat, at, q, caps, waits) = AfterTurn(sub, pat, at, q, held, c, rest)
    BY Zenon, <2>1, <1>2 DEF AfterBack
  <2>4. c.kind \in {"max", "min", "start", "end"}
    BY <2>2 DEF Returns, Waits
  <2>5. CASE c.kind = "max"
    BY Zenon, <2>2, <2>3, <2>5, MaxTurn
  <2>6. CASE c.kind = "min"
    BY Zenon, <2>2, <2>3, <2>6, MinTurn
  <2>7. CASE c.kind \in {"start", "end"}
    <3>1. /\ Usable(pat) /\ Len(sub) \in Nat /\ c.p \in 1 .. Len(pat)
          /\ Faces(sub, pat, lo, cut, c.p, held, rest, {j \in Nat : Untried(c, j)})
      BY <2>2 DEF Returns
    <3>2. \A j \in {h \in Nat : Untried(c, h)} : j \notin Fitting(sub, pat, cut, c.p)
      BY <2>7 DEF Untried
    <3>3. Walks(sub, pat, lo, Failed(at, q, held, rest))
      BY <3>1, <3>2, FailsHere
    <3>4. AfterTurn(sub, pat, at, q, held, c, rest) = Failed(at, q, held, rest)
      BY <2>7 DEF AfterTurn
    <3> QED BY Zenon, <3>3, <3>4, <2>3
  <2> QED BY <2>4, <2>5, <2>6, <2>7
<1> QED BY <1>1, <1>2

\* The pattern has been matched.
LEMMA WalkLast ==
  ASSUME NEW sub, NEW pat, Usable(pat), Len(sub) \in Nat, NEW lo, NEW at, NEW q, q > Len(pat), NEW caps, NEW waits,
         Walk(sub, pat, lo, "on", at, q, caps, waits)
  PROVE  Walks(sub, pat, lo, AtLast(at, q, caps, waits))
<1>1. PICK cut : \E i \in 0 .. Len(pat) :
        /\ Base(sub, pat, lo, cut, i, caps, waits) /\ Bounded(pat, i, waits) /\ at = cut[i] /\ q = i + 1
        /\ \A b \in CutsOf(sub, pat, lo) : Agree(b, cut, i) \/ LeftTo(waits, cut, b)
  BY DEF Walk
<1>2. PICK i \in 0 .. Len(pat) :
        /\ Base(sub, pat, lo, cut, i, caps, waits) /\ Bounded(pat, i, waits) /\ at = cut[i] /\ q = i + 1
        /\ \A b \in CutsOf(sub, pat, lo) : Agree(b, cut, i) \/ LeftTo(waits, cut, b)
  BY <1>1
<1>3. PICK m \in Nat : m = Len(pat)
  BY DEF Usable
<1>4. i = Len(pat)
  BY <1>2, <1>3
<1>5. OpenIn(caps) = {}
  <2>1. Rising(cut, Len(pat))
    BY <1>2, <1>3, <1>4, BaseRises
  <2>2. caps = CapsAt(pat, cut, Len(pat))
    BY <1>2, <1>4 DEF Base
  <2> QED BY <2>1, <2>2, CapsDone
<1>6. Walk(sub, pat, lo, "found", at, q, caps, waits)
  BY <1>2, <1>4 DEF Walk
<1>7. Walks(sub, pat, lo, <<"found", at, q, caps, waits>>)
  BY <1>6 DEF Walks
<1> QED BY Zenon, <1>5, <1>7 DEF AtLast

LEMMA WalkMoves ==
  ASSUME NEW sub, NEW pat, Usable(pat), Len(sub) \in Nat, NEW lo, lo >= 1, NEW x, Walks(sub, pat, lo, x), GoesOn(x), x[3] \in Int
  PROVE  Walks(sub, pat, lo, Moved(sub, pat, x))
<1>1. PICK w, at, q, caps, waits : w = x[1] /\ at = x[2] /\ q = x[3] /\ caps = x[4] /\ waits = x[5]
  OBVIOUS
<1>2. Walk(sub, pat, lo, w, at, q, caps, waits) /\ w \in {"on", "back"}
  BY <1>1 DEF Walks, GoesOn
<1>3. Len(pat) \in Nat /\ q \in Int
  BY <1>1 DEF Usable
<1>4. CASE w = "back"
  <2>1. Walks(sub, pat, lo, AfterBack(sub, pat, at, q, caps, waits))
    BY <1>2, <1>4, WalkBack
  <2> QED BY Zenon, <2>1, <1>1, <1>4 DEF Moved
<1>5. CASE w = "on" /\ q <= Len(pat)
  <2>1. Walks(sub, pat, lo, AfterPart(sub, pat[q], at, q, caps, waits))
    BY <1>2, <1>5, WalkPart
  <2>2. x[1] # "back"
    BY <1>1, <1>5
  <2> QED BY Zenon, <2>1, <2>2, <1>1, <1>5 DEF Moved
<1>6. CASE w = "on" /\ ~(q <= Len(pat))
  <2>1. q > Len(pat)
    BY <1>3, <1>6
  <2>2. Walks(sub, pat, lo, AtLast(at, q, caps, waits))
    BY <2>1, <1>2, <1>6, WalkLast
  <2>3. x[1] # "back"
    BY <1>1, <1>6
  <2> QED BY Zenon, <2>2, <2>3, <1>1, <1>6 DEF Moved
<1> QED BY <1>2, <1>4, <1>5, <1>6

-----------------------------------------------------------------------------
(* The call of match, and what it comes to.                                  *)

Prior(pat, a, b) ==
  \E i \in 1 .. Len(pat) :
    /\ \A j \in 1 .. i - 1 : a[j] = b[j]
    /\ IF pat[i].op = "set" /\ pat[i].rep = "-" THEN a[i] < b[i] ELSE a[i] > b[i]
Begins1(pat) == pat # <<>> /\ pat[1].op = "^"

LEMMA WalkStart ==
  ASSUME NEW sub, NEW pat, Usable(pat), Len(sub) \in Nat, NEW lo \in Nat, lo <= Len(sub) + 1, Begins1(pat) => lo = 1,
         NEW q, q = IF Begins1(pat) THEN 2 ELSE 1
  PROVE  Walk(sub, pat, lo, "on", lo, q, <<>>, <<>>)
<1>1. PICK m \in Nat : m = Len(pat) /\ DOMAIN pat = 1 .. m
  BY DEF Usable
<1>2. PICK cut : cut = [k \in 0 .. m |-> lo]
  OBVIOUS
<1>3. PICK i \in 0 .. m : i = (IF Begins1(pat) THEN 1 ELSE 0) /\ q = i + 1
  <2>1. Begins1(pat) => m >= 1
    <3>1. ASSUME m = 0, pat # <<>> PROVE FALSE
      BY <3>1, <1>1
    <3> QED BY <3>1, <1>1 DEF Begins1
  <2> QED BY <2>1, <1>1
<1>4. /\ \A k \in 0 .. m : cut[k] = lo
      /\ cut \in [0 .. Len(pat) -> lo .. Len(sub) + 1] /\ cut[0] = lo
  <2>1. lo \in lo .. Len(sub) + 1 /\ 0 \in 0 .. m
    OBVIOUS
  <2> QED BY <2>1, <1>1, <1>2
<1>5. \A k \in 1 .. i : cut[k - 1] <= cut[k] /\ MeansOf(sub, pat, k, cut[k - 1], cut[k], cut)
  <2> SUFFICES ASSUME NEW k \in 1 .. i PROVE cut[k - 1] <= cut[k] /\ MeansOf(sub, pat, k, cut[k - 1], cut[k], cut)
    OBVIOUS
  <2>1. k = 1 /\ i = 1 /\ Begins1(pat)
    BY <1>3
  <2>2. cut[1] = lo /\ cut[0] = lo /\ lo = 1
    BY <2>1, <1>4
  <2>3. MeansOf(sub, pat, 1, lo, lo, cut)
    BY <2>1, <2>2 DEF MeansOf, Begins1
  <2>4. k - 1 = 0
    BY <2>1
  <2>5. MeansOf(sub, pat, k, cut[k - 1], cut[k], cut)
    BY Zenon, <2>1, <2>2, <2>3, <2>4
  <2>6. cut[k - 1] <= cut[k]
    BY <2>1, <2>2, <2>4
  <2> QED BY <2>5, <2>6
<1>6. CapsAt(pat, cut, i) = <<>>
  <2>1. Rank(pat, 0) = 0
    BY RankNext
  <2>2. CapsAt(pat, cut, 0) = <<>>
    <3>1. 1 .. Rank(pat, 0) = {}
      BY <2>1
    <3> QED BY <3>1 DEF CapsAt
  <2>3. CASE i = 0
    BY <2>2, <2>3
  <2>4. CASE i # 0
    <3>1. i = 1 /\ Begins1(pat) /\ 1 \in 1 .. Len(pat) /\ 1 - 1 = 0
      BY <2>4, <1>1, <1>3
    <3>2. Agree(cut, cut, 1 - 1) /\ pat[1].op \notin {"(", "()", ")"}
      BY <3>1 DEF Agree, Begins1
    <3>3. CapsAt(pat, cut, 1) = CapsAt(pat, cut, 1 - 1)
      BY <3>1, <3>2, CapsStay
    <3> QED BY Zenon, <3>1, <3>3, <2>2
  <2> QED BY <2>3, <2>4
<1>7. PICK none \in Seq(Waits) : none = <<>> /\ Len(none) = 0
  <2>1. <<>> \in Seq(Waits) /\ Len(<<>>) = 0
    OBVIOUS
  <2> QED BY <2>1
<1>8. Base(sub, pat, lo, cut, i, <<>>, none)
  <2>1. pat # <<>> /\ pat[1].op = "^" => i >= 1
    BY <1>3 DEF Begins1
  <2>2. 1 .. Len(none) = {}
    BY <1>7
  <2>3. i \in 0 .. Len(pat)
    BY <1>1
  <2> QED BY <2>1, <2>2, <2>3, <1>4, <1>5, <1>6 DEF Base
<1>9. Bounded(pat, i, none)
  <2>1. \A j \in 1 .. i : pat[j].op = "^"
    BY <1>3 DEF Begins1
  <2> QED BY <2>1 DEF Bounded
<1>10. ASSUME NEW b \in CutsOf(sub, pat, lo) PROVE Agree(b, cut, i)
  <2>1. b \in [0 .. m -> lo .. Len(sub) + 1] /\ b[0] = lo
    BY <1>1 DEF CutsOf
  <2>2. i = 1 => b[1] = b[0]
    <3> SUFFICES ASSUME i = 1 PROVE b[1] = b[0]
      OBVIOUS
    <3>1. 1 \in 1 .. Len(pat) /\ Begins1(pat) /\ 1 - 1 = 0
      BY <1>1, <1>3
    <3>2. MeansOf(sub, pat, 1, b[1 - 1], b[1], b)
      BY <3>1 DEF CutsOf
    <3>3. b[1] = b[1 - 1]
      BY <3>1, <3>2 DEF MeansOf, Begins1
    <3> QED BY Zenon, <3>1, <3>3
  <2>3. \A k \in 0 .. i : k = 0 \/ (k = 1 /\ i = 1)
    BY <1>3
  <2>4. cut[0] = lo /\ (i = 1 => cut[1] = lo)
    BY <1>4, <1>3
  <2> QED BY <2>1, <2>2, <2>3, <2>4 DEF Agree
<1>11. cut[i] = lo /\ i \in 0 .. Len(pat)
  BY <1>1, <1>4
<1>12. Walk(sub, pat, lo, "on", lo, q, <<>>, none)
  BY <1>3, <1>8, <1>9, <1>10, <1>11 DEF Walk
<1> QED BY Zenon, <1>7, <1>12

\* A pattern that is anchored matches at the first place alone.
LEMMA FirstAlone ==
  ASSUME NEW sub, NEW pat, Usable(pat), Begins1(pat), NEW lo, lo # 1
  PROVE  CutsOf(sub, pat, lo) = {}
<1>1. SUFFICES ASSUME NEW b \in CutsOf(sub, pat, lo) PROVE FALSE
  OBVIOUS
<1>2. 1 \in 1 .. Len(pat) /\ 1 - 1 = 0
  BY DEF Usable, Begins1
<1>3. b[0] = lo /\ MeansOf(sub, pat, 1, b[1 - 1], b[1], b)
  BY <1>2 DEF CutsOf
<1>4. b[1 - 1] = 1
  BY <1>3 DEF MeansOf, Begins1
<1> QED BY <1>2, <1>3, <1>4

LEMMA WalkNone ==
  ASSUME NEW sub, NEW pat, NEW lo, NEW at, NEW q, NEW caps, NEW waits, Walk(sub, pat, lo, "none", at, q, caps, waits)
  PROVE  CutsOf(sub, pat, lo) = {}
<1>1. waits = <<>> /\ \E cut : \A b \in CutsOf(sub, pat, lo) : LeftTo(waits, cut, b)
  BY DEF Walk
<1>2. \A cut, b : ~LeftTo(<<>>, cut, b)
  BY DEF LeftTo
<1> QED BY <1>1, <1>2

LEMMA WalkFound ==
  ASSUME NEW sub, NEW pat, Usable(pat), Len(sub) \in Nat, NEW lo, NEW at, NEW q, NEW caps, NEW waits,
         Walk(sub, pat, lo, "found", at, q, caps, waits)
  PROVE  \E cut \in CutsOf(sub, pat, lo) :
           /\ at = cut[Len(pat)] /\ caps = CapturedOf(pat, cut)
           /\ \A b \in CutsOf(sub, pat, lo) : b = cut \/ Prior(pat, cut, b)
<1>1. PICK m \in Nat : m = Len(pat)
  BY DEF Usable
<1>2. PICK cut :
        /\ Base(sub, pat, lo, cut, m, caps, waits) /\ at = cut[m]
        /\ \A b \in CutsOf(sub, pat, lo) : Agree(b, cut, m) \/ LeftTo(waits, cut, b)
  BY <1>1 DEF Walk
<1>3. cut \in CutsOf(sub, pat, lo) /\ lo \in Nat
  BY <1>1, <1>2 DEF Base, CutsOf
<1>4. caps = CapturedOf(pat, cut)
  <2>1. Rising(cut, m)
    BY <1>1, <1>2, BaseRises
  <2>2. caps = CapsAt(pat, cut, m)
    BY <1>2 DEF Base
  <2> QED BY <2>1, <2>2, <1>1, CapsDone
<1>5. ASSUME NEW b \in CutsOf(sub, pat, lo), Agree(b, cut, m) PROVE b = cut
  <2>1. b \in [0 .. m -> lo .. Len(sub) + 1] /\ cut \in [0 .. m -> lo .. Len(sub) + 1]
    BY <1>1, <1>3 DEF CutsOf
  <2>2. \A k \in 0 .. m : b[k] = cut[k]
    BY <1>5 DEF Agree
  <2> QED BY <2>1, <2>2
<1>6. ASSUME NEW b \in CutsOf(sub, pat, lo), LeftTo(waits, cut, b) PROVE Prior(pat, cut, b)
  <2>1. PICK k \in 1 .. Len(waits) : Agree(b, cut, waits[k].p - 1) /\ Untried(waits[k], b[waits[k].p])
    BY <1>6 DEF LeftTo
  <2>2. PICK c \in Waits : c = waits[k]
    <3>1. waits \in Seq(Waits)
      BY <1>2 DEF Base
    <3> QED BY <3>1
  <2>3. PICK o \in 1 .. m : o = c.p /\ WaitFits(sub, pat, cut[o - 1], cut[o], c)
    <3>1. waits[k].p \in 1 .. m /\ WaitFits(sub, pat, cut[waits[k].p - 1], cut[waits[k].p], waits[k])
      BY <1>2 DEF Base
    <3>2. c.p \in 1 .. m /\ WaitFits(sub, pat, cut[c.p - 1], cut[c.p], c)
      BY Zenon, <2>2, <3>1
    <3> QED BY <3>2
  <2>4. Agree(b, cut, o - 1) /\ Untried(c, b[o])
    BY Zenon, <2>1, <2>2, <2>3
  <2>5. \A j \in 1 .. o - 1 : cut[j] = b[j]
    BY <2>4 DEF Agree
  <2>6. PICK f \in Nat, g \in Nat : f = cut[o] /\ g = b[o]
    <3>1. \A k1 \in 0 .. m : cut[k1] \in Nat
      BY <1>1, <1>2, BaseRises
    <3>2. b[o] \in Nat
      BY <2>4, <1>1, <1>3, CutPart
    <3>3. o \in 0 .. m
      OBVIOUS
    <3> QED BY <3>1, <3>2, <3>3
  <2>7. /\ c.s \in Nat /\ c.n \in Nat /\ Untried(c, g) /\ WaitFits(sub, pat, cut[o - 1], f, c)
    BY Zenon, <2>2, <2>3, <2>4, <2>6 DEF Waits
  <2>8. IF pat[o].op = "set" /\ pat[o].rep = "-" THEN f < g ELSE f > g
    <3>1. CASE c.kind = "max"
      <4>1. pat[o].rep \in {"*", "+"} /\ c.s + c.n < f /\ g <= c.s + c.n
        BY <3>1, <2>3, <2>7 DEF WaitFits, Untried
      <4> QED BY <4>1, <2>7
    <3>2. CASE c.kind = "min"
      <4>1. pat[c.p] = pat[o]
        BY <2>3
      <4>2. \/ c.n = 0 /\ pat[c.p].rep = "?" /\ f = c.s + 1
            \/ c.n = 1 /\ pat[c.p].op = "set" /\ pat[c.p].rep = "-" /\ c.s = f
        BY <3>2, <2>7 DEF WaitFits
      <4>3. (c.n = 0 => g = c.s) /\ (c.n = 1 => g > c.s)
        BY <3>2, <2>7 DEF Untried
      <4> QED BY <4>1, <4>2, <4>3, <2>7
    <3>3. CASE c.kind \notin {"max", "min"}
      BY <3>3, <2>7 DEF Untried
    <3> QED BY <3>1, <3>2, <3>3
  <2>9. o \in 1 .. Len(pat)
    BY <1>1
  <2> QED BY Zenon, <2>5, <2>6, <2>8, <2>9 DEF Prior
<1> QED BY <1>1, <1>2, <1>3, <1>4, <1>5, <1>6

-----------------------------------------------------------------------------
(* What find returns, of the subject and the pattern.                         *)

LEMMA SameCaptures ==
  ASSUME NEW cut PROVE Captured(cut) = CapturedOf(pattern, cut)
BY Zenon DEF Captured, CapturedOf, Nth, CloseOf, Closes, Rank, BeginsOf, CaptureOps

LEMMA SameMeaning ==
  ASSUME NEW i, NEW from, NEW to, NEW cut
  PROVE  Means(i, from, to, cut) <=> MeansOf(subject, pattern, i, from, to, cut)
<1>1. PICK c : c = Captured(cut)[1]
  OBVIOUS
<1>2. Captured(cut)[1] = c /\ CapturedOf(pattern, cut)[1] = c
  BY Zenon, <1>1, SameCaptures
<1> QED BY Zenon, <1>2 DEF Means, MeansOf, Repeats, In, Entry, Excess, Surplus, End

LEMMA SameCuts ==
  ASSUME NEW from PROVE Cuts(from) = CutsOf(subject, pattern, from)
BY Zenon, SameMeaning DEF Cuts, CutsOf, End

LEMMA SameOrder ==
  ASSUME NEW a, NEW b PROVE Better(a, b) <=> Prior(pattern, a, b)
BY Zenon DEF Better, Prior

\* FindIsRight, of a subject, a pattern and what was found.
BestOf(sub, pat, from) == CHOOSE a \in CutsOf(sub, pat, from) : \A b \in CutsOf(sub, pat, from) : a = b \/ Prior(pat, a, b)
PlacesOf(sub, pat)     == {i \in 1 .. Len(sub) + 1 : CutsOf(sub, pat, i) # {}}
Right(sub, pat, result) ==
  IF PlacesOf(sub, pat) = {} THEN result.from = 0
  ELSE result = [from |-> FirstOf(PlacesOf(sub, pat)),
                 to   |-> BestOf(sub, pat, FirstOf(PlacesOf(sub, pat)))[Len(pat)],
                 cap  |-> CapturedOf(pat, BestOf(sub, pat, FirstOf(PlacesOf(sub, pat))))]

LEMMA SameRight == FindIsRight <=> Right(subject, pattern, found)
<1>1. {i \in 1 .. End : Cuts(i) # {}} = PlacesOf(subject, pattern)
  BY Zenon, SameCuts DEF PlacesOf, End
<1>2. ASSUME NEW from PROVE BestMatch(from) = BestOf(subject, pattern, from)
  BY Zenon, SameCuts, SameOrder DEF BestMatch, BestOf
<1>3. PICK pl, first : pl = PlacesOf(subject, pattern) /\ first = FirstOf(pl)
  OBVIOUS
<1>4. first = CHOOSE i \in pl : \A j \in pl : i <= j
  BY Zenon, <1>3 DEF FirstOf
<1>5. PICK best : best = BestMatch(first)
  OBVIOUS
<1>6. FindIsRight <=> (IF pl = {} THEN found.from = 0
                       ELSE found = [from |-> first, to |-> best[Len(pattern)], cap |-> Captured(best)])
  BY Zenon, <1>1, <1>3, <1>4, <1>5 DEF FindIsRight
<1>7. Captured(best) = CapturedOf(pattern, best)
  BY Zenon, SameCaptures
<1>8. Right(subject, pattern, found)
      <=> (IF pl = {} THEN found.from = 0
           ELSE found = [from |-> first, to |-> best[Len(pattern)], cap |-> CapturedOf(pattern, best)])
  BY Zenon, <1>2, <1>3, <1>5 DEF Right
<1> QED BY Zenon, <1>6, <1>7, <1>8

\* Two matches are not each prior to the other.
LEMMA PriorOnce ==
  ASSUME NEW sub, NEW pat, Len(sub) \in Nat, Len(pat) \in Nat, NEW lo \in Nat,
         NEW a \in CutsOf(sub, pat, lo), NEW b \in CutsOf(sub, pat, lo), Prior(pat, a, b), Prior(pat, b, a)
  PROVE  FALSE
<1>1. PICK m \in Nat : m = Len(pat)
  OBVIOUS
<1>2. a \in [0 .. m -> lo .. Len(sub) + 1] /\ b \in [0 .. m -> lo .. Len(sub) + 1]
  BY <1>1 DEF CutsOf
<1>3. \A k \in 0 .. m : a[k] \in Int /\ b[k] \in Int
  BY <1>2
<1>4. PICK i \in 1 .. m :
        /\ \A j \in 1 .. i - 1 : a[j] = b[j]
        /\ IF pat[i].op = "set" /\ pat[i].rep = "-" THEN a[i] < b[i] ELSE a[i] > b[i]
  BY <1>1 DEF Prior
<1>5. PICK h \in 1 .. m :
        /\ \A j \in 1 .. h - 1 : b[j] = a[j]
        /\ IF pat[h].op = "set" /\ pat[h].rep = "-" THEN b[h] < a[h] ELSE b[h] > a[h]
  BY <1>1 DEF Prior
<1>6. a[i] \in Int /\ b[i] \in Int /\ a[h] \in Int /\ b[h] \in Int /\ a[i] # b[i] /\ a[h] # b[h]
  BY <1>3, <1>4, <1>5
<1>7. CASE i < h
  <2>1. i \in 1 .. h - 1
    BY <1>7
  <2> QED BY <2>1, <1>5, <1>6
<1>8. CASE h < i
  <2>1. h \in 1 .. i - 1
    BY <1>8
  <2> QED BY <2>1, <1>4, <1>6
<1>9. CASE h = i
  BY <1>4, <1>5, <1>6, <1>9
<1> QED BY <1>7, <1>8, <1>9

LEMMA RightNone ==
  ASSUME NEW sub, NEW pat, NEW result, result.from = 0, \A j \in 1 .. Len(sub) + 1 : CutsOf(sub, pat, j) = {}
  PROVE  Right(sub, pat, result)
BY Zenon DEF Right, PlacesOf

LEMMA RightFound ==
  ASSUME NEW sub, NEW pat, Usable(pat), Len(sub) \in Nat, NEW lo \in 1 .. Len(sub) + 1,
         \A j \in 1 .. lo - 1 : CutsOf(sub, pat, j) = {},
         NEW at, NEW q, NEW caps, NEW waits, Walk(sub, pat, lo, "found", at, q, caps, waits)
  PROVE  Right(sub, pat, [from |-> lo, to |-> at, cap |-> caps])
<1>1. PICK cut \in CutsOf(sub, pat, lo) :
        /\ at = cut[Len(pat)] /\ caps = CapturedOf(pat, cut)
        /\ \A b \in CutsOf(sub, pat, lo) : b = cut \/ Prior(pat, cut, b)
  BY WalkFound
<1>2. lo \in PlacesOf(sub, pat)
  BY <1>1 DEF PlacesOf
<1>3. FirstOf(PlacesOf(sub, pat)) = lo
  <2>1. PICK pl : pl = PlacesOf(sub, pat)
    OBVIOUS
  <2>2. ASSUME NEW j \in pl PROVE lo <= j /\ j \in Int
    <3>1. j \in 1 .. Len(sub) + 1 /\ CutsOf(sub, pat, j) # {}
      BY <2>1, <2>2 DEF PlacesOf
    <3>2. ~(j \in 1 .. lo - 1)
      BY <3>1
    <3> QED BY <3>1, <3>2
  <2>3. lo \in pl /\ \A j \in pl : lo <= j
    BY <1>2, <2>1, <2>2
  <2>4. \A i \in pl : (\A j \in pl : i <= j) => i = lo
    BY <2>2, <2>3
  <2>5. (CHOOSE i \in pl : \A j \in pl : i <= j) = lo
    BY <2>3, <2>4
  <2> QED BY Zenon, <2>1, <2>5 DEF FirstOf
<1>4. BestOf(sub, pat, lo) = cut
  <2>1. PICK all : all = CutsOf(sub, pat, lo)
    OBVIOUS
  <2>2. cut \in all /\ \A b \in all : cut = b \/ Prior(pat, cut, b)
    BY <1>1, <2>1
  <2>3. ASSUME NEW a \in all, \A b \in all : a = b \/ Prior(pat, a, b) PROVE a = cut
    <3>1. a = cut \/ Prior(pat, a, cut)
      BY <2>2, <2>3
    <3>2. cut = a \/ Prior(pat, cut, a)
      BY <2>2
    <3>3. ~(Prior(pat, a, cut) /\ Prior(pat, cut, a))
      BY <2>1, <2>2, PriorOnce DEF Usable
    <3> QED BY <3>1, <3>2, <3>3
  <2>4. (CHOOSE a \in all : \A b \in all : a = b \/ Prior(pat, a, b)) = cut
    BY Zenon, <2>2, <2>3
  <2> QED BY Zenon, <2>1, <2>4 DEF BestOf
<1>5. PlacesOf(sub, pat) # {}
  BY Zenon, <1>2
<1> QED BY Zenon, <1>1, <1>3, <1>4, <1>5 DEF Right

-----------------------------------------------------------------------------
(* The loops around the matcher.                                             *)

\* The matcher has come to where it is from where it was called.  gmatch calls it with the
\* whole of an anchored pattern, which fails at once.
Walking ==
  IF task = "gmatch" /\ Begins1(pattern)
  THEN way \in {"on", "back", "none"} /\ p = 1 /\ choices = <<>>
  ELSE Walk(subject, pattern, src, way, s, p, cap, choices)
NoneBefore(i) == \A j \in 1 .. i - 1 : CutsOf(subject, pattern, j) = {}
BestInv ==
  /\ DOMAIN pattern = 1 .. Len(pattern) /\ \A i \in 1 .. Len(pattern) : Shape(pattern[i])
  /\ task = "idle" => found.from = 0
  /\ WellFormed(pattern) =>
       /\ way # "error"
       /\ task \in {"find", "gsub", "gmatch"} => Walking
       /\ task \in {"find", "gsub"} /\ Begins1(pattern) => src = 1
       /\ task = "find" => found.from = 0 /\ NoneBefore(src)
       /\ task \in {"gsub", "gmatch"} => Right(subject, pattern, found)

LEMMA Able ==
  ASSUME MatchInv, BestInv, WellFormed(pattern)
  PROVE  Usable(pattern) /\ Len(subject) \in Nat /\ End = Len(subject) + 1
BY SubjectEnds DEF MatchInv, BestInv, Usable

\* match is called: a task begins, or its loop goes on.
LEMMA CalledWalks ==
  ASSUME Usable(pattern), Len(subject) \in Nat, UNCHANGED input, NEW i \in Nat, i <= Len(subject) + 1,
         NEW q, MatchAt(i, q), task' \in {"find", "gsub", "gmatch"},
         task' = "gmatch" => q = 1,
         task' # "gmatch" => q = (IF Begins1(pattern) THEN 2 ELSE 1) /\ (Begins1(pattern) => i = 1)
  PROVE  /\ subject' = subject /\ pattern' = pattern /\ src' = i /\ way' = "on" /\ p' = q
         /\ Walking'
<1>1. subject' = subject /\ pattern' = pattern /\ (Begins1(pattern') <=> Begins1(pattern))
  BY DEF input
<1>2. src' = i /\ way' = "on" /\ s' = i /\ p' = q /\ cap' = <<>> /\ choices' = <<>>
  BY DEF MatchAt
<1>3. CASE task' = "gmatch" /\ Begins1(pattern)
  BY <1>1, <1>2, <1>3 DEF Walking
<1>4. CASE ~(task' = "gmatch" /\ Begins1(pattern))
  <2>1. q = (IF Begins1(pattern) THEN 2 ELSE 1) /\ (Begins1(pattern) => i = 1)
    BY <1>4
  <2>2. Walk(subject, pattern, i, "on", i, q, <<>>, <<>>)
    BY <2>1, WalkStart
  <2> QED BY Zenon, <1>1, <1>2, <1>4, <2>2 DEF Walking
<1> QED BY Zenon, <1>1, <1>2, <1>3, <1>4

\* The shape of a pattern is that of the same pattern.
LEMMA SameShape ==
  ASSUME BestInv, pattern' = pattern
  PROVE  /\ DOMAIN pattern' = 1 .. Len(pattern') /\ \A i \in 1 .. Len(pattern') : Shape(pattern'[i])
         /\ (WellFormed(pattern') <=> WellFormed(pattern)) /\ (Begins1(pattern') <=> Begins1(pattern))
BY Zenon DEF BestInv

LEMMA MatcherBest ==
  ASSUME MatchInv, BestInv, Part \/ PatternEnds \/ Back
  PROVE  BestInv'
<1>1. UNCHANGED <<subject, pattern, task, src, found>> /\ way \in {"on", "back"}
  BY DEF Part, PatternEnds, Back, input, outcome
<1>2. task \in {"find", "gsub", "gmatch"} /\ p \in Int /\ Len(pattern) \in Nat /\ Matching
  BY <1>1 DEF MatchInv
<1>3. ASSUME WellFormed(pattern) PROVE way' # "error" /\ Walking'
  <2>1. Usable(pattern) /\ Len(subject) \in Nat /\ Walking
    BY <1>2, <1>3, Able DEF BestInv
  <2>2. CASE task = "gmatch" /\ Begins1(pattern)
    <3>1. p = 1 /\ choices = <<>> /\ 1 <= Len(pattern) /\ pattern[1].op = "^"
      BY <2>1, <2>2 DEF Walking, Usable, Begins1
    <3>2. CASE Part
      <4>1. GoBack
        BY <3>1, <3>2 DEF Part
      <4> QED BY <4>1, <3>1, <1>1, <2>2 DEF GoBack, Walking
    <3>3. CASE PatternEnds
      BY <3>1, <3>3, <1>2 DEF PatternEnds
    <3>4. CASE Back
      <4>1. way' = "none" /\ UNCHANGED <<p, choices>>
        BY <3>1, <3>4 DEF Back
      <4> QED BY <4>1, <3>1, <1>1, <2>2 DEF Walking
    <3> QED BY <3>2, <3>3, <3>4
  <2>3. CASE ~(task = "gmatch" /\ Begins1(pattern))
    <3>1. PICK x : /\ x = <<way, s, p, cap, choices>>
                   /\ x[1] = way /\ x[2] = s /\ x[3] = p /\ x[4] = cap /\ x[5] = choices
      <4>1. PICK x : x = <<way, s, p, cap, choices>>
        OBVIOUS
      <4>2. x[1] = way /\ x[2] = s /\ x[3] = p /\ x[4] = cap /\ x[5] = choices
        BY <4>1
      <4> QED BY Zenon, <4>1, <4>2
    <3>2. Walks(subject, pattern, src, x) /\ GoesOn(x) /\ x[3] \in Int
      BY Zenon, <1>1, <1>2, <2>1, <2>3, <3>1 DEF Walks, Walking, GoesOn
    <3>3. src >= 1
      BY <1>2, Places
    <3>4. Walks(subject, pattern, src, Moved(subject, pattern, x))
      BY <2>1, <3>2, <3>3, WalkMoves
    <3>5. <<way', s', p', cap', choices'>> = Moved(subject, pattern, x)
      BY Zenon, <3>1, <1>2, SameMove DEF Becomes
    <3>6. PICK y : /\ y = Moved(subject, pattern, x)
                   /\ y[1] = way' /\ y[2] = s' /\ y[3] = p' /\ y[4] = cap' /\ y[5] = choices'
      <4>1. PICK y : y = <<way', s', p', cap', choices'>>
        OBVIOUS
      <4>2. y[1] = way' /\ y[2] = s' /\ y[3] = p' /\ y[4] = cap' /\ y[5] = choices'
        BY <4>1
      <4> QED BY Zenon, <4>1, <4>2, <3>5
    <3>7. Walk(subject, pattern, src, way', s', p', cap', choices')
      BY Zenon, <3>4, <3>6 DEF Walks
    <3>8. way' # "error"
      BY <3>7 DEF Walk
    <3> QED BY Zenon, <1>1, <2>3, <3>7, <3>8 DEF Walking
  <2> QED BY <2>2, <2>3
<1>4. NoneBefore(src)' <=> NoneBefore(src)
  BY <1>1 DEF NoneBefore
<1>5. /\ DOMAIN pattern' = 1 .. Len(pattern') /\ \A i \in 1 .. Len(pattern') : Shape(pattern'[i])
      /\ (WellFormed(pattern') <=> WellFormed(pattern)) /\ (Begins1(pattern') <=> Begins1(pattern))
  BY <1>1, SameShape
<1> QED BY Zenon, <1>1, <1>3, <1>4, <1>5 DEF BestInv

LEMMA AskBest ==
  ASSUME MatchInv, BestInv, task = "idle", NEW sub \in Subjects, NEW pat \in Patterns, Ask(sub, pat)
  PROVE  BestInv'
<1>1. subject' = sub /\ pattern' = pat /\ task' = "find" /\ found' = found
      /\ MatchAt(1, IF pat # <<>> /\ pat[1].op = "^" THEN 2 ELSE 1)
  BY DEF Ask, outcome
<1>2. /\ Len(sub) \in Nat /\ Len(pat) \in Nat /\ DOMAIN pat = 1 .. Len(pat)
      /\ \A i \in 1 .. Len(pat) : Shape(pat[i])
  <2>1. sub \in Seq(STRING)
    BY StringMatchAssumption
  <2> QED BY <2>1, StringMatchAssumption
<1>3. /\ src' = 1 /\ way' = "on" /\ s' = 1 /\ p' = (IF Begins1(pat) THEN 2 ELSE 1)
      /\ cap' = <<>> /\ choices' = <<>>
  BY <1>1 DEF MatchAt, Begins1
<1>4. ASSUME WellFormed(pat) PROVE Walking'
  <2>1. Usable(pat)
    BY <1>2, <1>4 DEF Usable
  <2>2. PICK q : q = (IF Begins1(pat) THEN 2 ELSE 1)
    OBVIOUS
  <2>3. Walk(sub, pat, 1, "on", 1, q, <<>>, <<>>)
    BY <2>1, <2>2, <1>2, WalkStart
  <2> QED BY Zenon, <1>1, <1>3, <2>2, <2>3 DEF Walking
<1>5. NoneBefore(src)' /\ found.from = 0
  BY <1>3 DEF NoneBefore, BestInv
<1> QED BY Zenon, <1>1, <1>2, <1>3, <1>4, <1>5 DEF BestInv

LEMMA FindBest ==
  ASSUME MatchInv, BestInv, FindTurn
  PROVE  BestInv'
<1>1. task = "find" /\ Matching /\ UNCHANGED input /\ subject' = subject /\ pattern' = pattern
  BY DEF FindTurn, MatchInv, input
<1>2. /\ DOMAIN pattern' = 1 .. Len(pattern') /\ \A i \in 1 .. Len(pattern') : Shape(pattern'[i])
      /\ (WellFormed(pattern') <=> WellFormed(pattern)) /\ (Begins1(pattern') <=> Begins1(pattern))
  BY <1>1, SameShape
<1>3. task' # "idle"
  BY <1>1 DEF FindTurn, BeginGsub, Pass, Over
<1>4. CASE ~WellFormed(pattern)
  BY Zenon, <1>2, <1>3, <1>4 DEF BestInv
<1>5. CASE WellFormed(pattern)
  <2>1. /\ Usable(pattern) /\ Len(subject) \in Nat /\ Walking /\ found.from = 0 /\ NoneBefore(src)
        /\ way # "error" /\ (Begins1(pattern) => src = 1) /\ End = Len(subject) + 1
    BY <1>1, <1>5, Able DEF BestInv
  <2>2. src \in Nat /\ 1 <= src /\ src <= Len(subject) + 1
    <3>1. src \in Nat \ {0} /\ End \in Nat /\ s \in Nat /\ src <= s /\ s <= End
      BY <1>1, Places
    <3> QED BY <3>1, <2>1
  <2>3. Walk(subject, pattern, src, way, s, p, cap, choices)
    BY <1>1, <2>1 DEF Walking
  <2>4. Anchored <=> Begins1(pattern)
    BY DEF Anchored, Begins1
  <2>5. ASSUME BeginGsub, Right(subject, pattern, found') PROVE BestInv'
    <3>1. PICK q : q = (IF Begins1(pattern) THEN 2 ELSE 1)
      OBVIOUS
    <3>2. task' = "gsub" /\ MatchAt(1, q)
      BY <2>4, <2>5, <3>1 DEF BeginGsub
    <3>3. src' = 1 /\ way' = "on" /\ Walking'
      BY <1>1, <2>1, <3>1, <3>2, CalledWalks
    <3> QED BY <1>1, <1>2, <2>5, <3>2, <3>3 DEF BestInv
  <2>6. CASE way = "found" /\ found' = [from |-> src, to |-> s, cap |-> cap] /\ BeginGsub
    <3>1. \A j \in 1 .. src - 1 : CutsOf(subject, pattern, j) = {}
      BY <2>1 DEF NoneBefore
    <3>2. Walk(subject, pattern, src, "found", s, p, cap, choices) /\ src \in 1 .. Len(subject) + 1
      BY <2>2, <2>3, <2>6
    <3>3. Right(subject, pattern, [from |-> src, to |-> s, cap |-> cap])
      BY <2>1, <3>1, <3>2, RightFound
    <3> QED BY <2>5, <2>6, <3>3
  <2>7. ASSUME way = "none" PROVE CutsOf(subject, pattern, src) = {}
    BY <2>3, <2>7, WalkNone
  <2>8. CASE way = "none" /\ src < End /\ ~Anchored /\ Pass(src + 1) /\ found' = found
    <3>1. PICK i \in Nat : i = src + 1 /\ i <= Len(subject) + 1
      BY <2>1, <2>2, <2>8
    <3>2. task' = "find" /\ MatchAt(i, 1) /\ ~Begins1(pattern)
      BY <1>1, <2>4, <2>8, <3>1 DEF Pass
    <3>3. src' = i /\ way' = "on" /\ Walking'
      BY <1>1, <2>1, <3>1, <3>2, CalledWalks
    <3>4. NoneBefore(src)'
      <4>1. ASSUME NEW j \in 1 .. i - 1 PROVE CutsOf(subject, pattern, j) = {}
        <5>1. j = src \/ j \in 1 .. src - 1
          BY <2>2, <3>1
        <5> QED BY <5>1, <2>1, <2>7, <2>8 DEF NoneBefore
      <4> QED BY <4>1, <3>3, <1>1 DEF NoneBefore
    <3> QED BY Zenon, <1>2, <1>3, <2>1, <2>8, <3>2, <3>3, <3>4 DEF BestInv
  <2>9. CASE way = "none" /\ (src = End \/ Anchored) /\ BeginGsub /\ found' = found
    <3>1. ASSUME NEW j \in 1 .. Len(subject) + 1 PROVE CutsOf(subject, pattern, j) = {}
      <4>1. CASE j = src
        BY <2>7, <2>9, <4>1
      <4>2. CASE j \in 1 .. src - 1
        BY <2>1, <4>2 DEF NoneBefore
      <4>3. CASE j > src
        <5>1. Begins1(pattern) /\ j # 1
          BY <2>1, <2>2, <2>4, <2>9, <4>3
        <5> QED BY <5>1, <2>1, FirstAlone
      <4> QED BY <2>2, <4>1, <4>2, <4>3
    <3>2. Right(subject, pattern, found)
      BY <2>1, <3>1, RightNone
    <3> QED BY Zenon, <2>5, <2>9, <3>2
  <2> QED BY <2>1, <2>6, <2>8, <2>9 DEF FindTurn
<1> QED BY <1>4, <1>5

LEMMA GsubBest ==
  ASSUME MatchInv, BestInv, GsubTurn
  PROVE  BestInv'
<1>1. /\ task = "gsub" /\ Matching /\ UNCHANGED <<input, found>> /\ subject' = subject /\ pattern' = pattern
      /\ found' = found
  BY DEF GsubTurn, MatchInv, input
<1>2. /\ DOMAIN pattern' = 1 .. Len(pattern') /\ \A i \in 1 .. Len(pattern') : Shape(pattern'[i])
      /\ (WellFormed(pattern') <=> WellFormed(pattern)) /\ (Begins1(pattern') <=> Begins1(pattern))
  BY <1>1, SameShape
<1>3. task' \in {"gsub", "gmatch"}
  BY <1>1 DEF GsubTurn, Pass
<1>4. CASE ~WellFormed(pattern)
  BY <1>2, <1>3, <1>4 DEF BestInv
<1>5. CASE WellFormed(pattern)
  <2>1. /\ Usable(pattern) /\ Len(subject) \in Nat /\ Right(subject, pattern, found) /\ End = Len(subject) + 1
    BY <1>1, <1>5, Able DEF BestInv
  <2>2. src \in Nat /\ 1 <= src /\ s \in Nat /\ s <= Len(subject) + 1 /\ src <= s
    <3>1. src \in Nat \ {0} /\ End \in Nat /\ s \in Nat /\ src <= s /\ s <= End
      BY <1>1, Places
    <3> QED BY <3>1, <2>1
  <2>3. Anchored <=> Begins1(pattern)
    BY DEF Anchored, Begins1
  <2>4. Right(subject', pattern', found')
    BY Zenon, <1>1, <2>1
  <2>5. CASE Onward > src /\ ~Anchored /\ Pass(Onward)
    <3>1. PICK i \in Nat : i = Onward /\ i <= Len(subject) + 1
      BY <2>1, <2>2 DEF Onward
    <3>2. task' = "gsub" /\ MatchAt(i, 1) /\ ~Begins1(pattern)
      BY <1>1, <2>3, <2>5, <3>1 DEF Pass
    <3>3. src' = i /\ way' = "on" /\ Walking'
      BY <1>1, <2>1, <3>1, <3>2, CalledWalks
    <3> QED BY <1>2, <2>4, <3>2, <3>3 DEF BestInv
  <2>6. CASE task' = "gmatch" /\ MatchAt(1, 1)
    <3>1. src' = 1 /\ way' = "on" /\ Walking'
      BY <1>1, <2>1, <2>6, CalledWalks
    <3> QED BY <1>2, <2>4, <2>6, <3>1 DEF BestInv
  <2> QED BY <2>5, <2>6 DEF GsubTurn
<1> QED BY <1>4, <1>5

LEMMA GmatchBest ==
  ASSUME MatchInv, BestInv, GmatchTurn
  PROVE  BestInv'
<1>1. /\ task = "gmatch" /\ Matching /\ way \in {"found", "none"} /\ UNCHANGED <<input, found>>
      /\ subject' = subject /\ pattern' = pattern /\ found' = found
  BY DEF GmatchTurn, MatchInv, input
<1>2. /\ DOMAIN pattern' = 1 .. Len(pattern') /\ \A i \in 1 .. Len(pattern') : Shape(pattern'[i])
      /\ (WellFormed(pattern') <=> WellFormed(pattern)) /\ (Begins1(pattern') <=> Begins1(pattern))
  BY <1>1, SameShape
<1>3. PICK next : next = (IF way = "found" THEN PastMatch ELSE src + 1)
                  /\ IF next > End THEN Over ELSE Pass(next)
  BY DEF GmatchTurn
<1>4. task' \in {"gmatch", "over"}
  BY <1>1, <1>3 DEF Over, Pass
<1>5. CASE ~WellFormed(pattern)
  BY <1>2, <1>4, <1>5 DEF BestInv
<1>6. CASE WellFormed(pattern)
  <2>1. /\ Usable(pattern) /\ Len(subject) \in Nat /\ Right(subject, pattern, found) /\ End = Len(subject) + 1
    BY <1>1, <1>6, Able DEF BestInv
  <2>2. src \in Nat \ {0} /\ s \in Nat
    BY <1>1, Places
  <2>3. Right(subject', pattern', found')
    BY Zenon, <1>1, <2>1
  <2>4. CASE next > End /\ Over
    <3>1. task' = "over" /\ way' = way
      BY <2>4 DEF Over
    <3> QED BY <1>1, <1>2, <3>1 DEF BestInv
  <2>5. CASE ~(next > End) /\ Pass(next)
    <3>1. next \in Nat /\ next <= Len(subject) + 1
      BY <1>1, <1>3, <2>1, <2>2, <2>5 DEF PastMatch
    <3>2. task' = "gmatch" /\ MatchAt(next, 1)
      BY <1>1, <2>5 DEF Pass
    <3>3. src' = next /\ way' = "on" /\ Walking'
      BY <1>1, <2>1, <3>1, <3>2, CalledWalks
    <3> QED BY <1>2, <2>3, <3>2, <3>3 DEF BestInv
  <2> QED BY <1>3, <2>4, <2>5
<1> QED BY <1>5, <1>6

LEMMA BestStep ==
  ASSUME MatchInv, BestInv, [MatchNext]_matchVars
  PROVE  BestInv'
<1>1. CASE UNCHANGED matchVars
  <2>1. /\ UNCHANGED <<subject, pattern, task, src, way, s, p, cap, choices, found>>
    BY <1>1 DEF matchVars, input, outcome
  <2>2. NoneBefore(src)' <=> NoneBefore(src)
    BY Zenon, <2>1 DEF NoneBefore
  <2>3. Walking' <=> Walking
    BY Zenon, <2>1 DEF Walking
  <2> QED BY Zenon, <2>1, <2>2, <2>3 DEF BestInv
<1> QED BY <1>1, MatcherBest, AskBest, FindBest, GsubBest, GmatchBest DEF MatchNext

\* find returns the leftmost match, of those the one each of whose parts in turn is as long as
\* it may be, or as short, with the captures of that match, whatever do_match, max_expand and
\* min_expand have tried and undone before (str_find_aux, match in lstrlib.c); and no error is
\* raised for a well-formed pattern (match_capture, capture_to_close, push_onecapture).
THEOREM FindsBest == MatchSpec => []LeftmostBest
<1>1. MatchInit => MatchInv /\ BestInv
  <2> SUFFICES ASSUME MatchInit PROVE BestInv
    BY MatchInitInv
  <2>1. pattern = <<>> /\ task = "idle" /\ way = "none" /\ found.from = 0
    BY DEF MatchInit
  <2>2. Len(pattern) = 0 /\ DOMAIN pattern = 1 .. Len(pattern)
    BY <2>1
  <2> QED BY <2>1, <2>2 DEF BestInv
<1>2. MatchInv /\ BestInv /\ [MatchNext]_matchVars => MatchInv' /\ BestInv'
  BY MatchStep, BestStep
<1>3. BestInv => LeftmostBest
  BY Zenon, SameRight DEF BestInv, LeftmostBest
<1> QED BY <1>1, <1>2, <1>3, PTL DEF MatchSpec
=================================================================================
