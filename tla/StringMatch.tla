------------------------------ MODULE StringMatch ------------------------------
(***************************************************************************)
(* The pattern matcher of the string library (lstrlib.c) and the loops     *)
(* around it: find, gsub and gmatch.  A pattern is a sequence of parts; how*)
(* they are written, and so classend, is left out, and no set contains the *)
(* zero that ends a string.  The matcher has one                           *)
(* array of captures; the activations of match that wait for another one   *)
(* to fail are a stack, and each undoes what it did when it gets its turn. *)
(***************************************************************************)
EXTENDS Integers, Sequences, FiniteSets

CONSTANTS
  Subjects, Patterns,   \* what is matched
  MaxCaptures           \* LUA_MAXCAPTURES

\* A part: a set with its repetition, a test, the bounds of a capture, or what was captured.
\* "^" and "$" that are not at the ends of a pattern are characters, and so sets.
Ops   == {"set", "(", "()", ")", "%1", "%b", "%f", "$", "^"}
Reps  == {"1", "?", "*", "+", "-"}
Shape(part) == part.op \in Ops /\ (part.op = "set" => part.rep \in Reps)

ASSUME StringMatchAssumption ==
  /\ Subjects \subseteq Seq(STRING) /\ MaxCaptures \in Nat
  /\ \A sub \in Subjects : \A i \in 1 .. Len(sub) : sub[i] # "^"
  /\ \A pat \in Patterns :
       /\ Len(pat) \in Nat /\ DOMAIN pat = 1 .. Len(pat)
       /\ \A i \in 1 .. Len(pat) :
            Shape(pat[i]) /\ (pat[i].op = "^" => i = 1) /\ (pat[i].op = "$" => i = Len(pat))

VARIABLES
  subject, pattern,
  task,      \* "idle", then "find", "gsub" and "gmatch", then "over"
  src,       \* where the loop of the task is
  way,       \* of the matcher: "on", "back", or what match returned: "found", "none", "error"
  s, p,      \* where in the subject and in the pattern it is
  cap,       \* the captures: [init, len]
  choices,   \* the activations that wait: [kind, s, p, n], innermost first
  found,     \* what find returned: [from, to, cap], from 0 if nothing
  text,      \* what gsub builds, with a replacement function that returns nothing
  replacing, \* the matches of gsub: [from, to]
  iterating  \* the matches of gmatch

input    == <<subject, pattern>>
outcome  == <<found, text, replacing, iterating>>
matchVars == <<input, task, src, way, s, p, cap, choices, outcome>>

Unfinished == -1
Position   == -2
End        == Len(subject) + 1
In(i, set) == i < End /\ subject[i] \in set
Open       == {l \in DOMAIN cap : cap[l].len = Unfinished}
Anchored   == pattern # <<>> /\ pattern[1].op = "^"
Choice(kind, n) == [kind |-> kind, s |-> s, p |-> p, n |-> n]

-----------------------------------------------------------------------------

\* What match does with the part at p: go on at some place, with what is to be done should
\* this fail; or go back.
GoOn(s1, p1, waiting) == way' = "on" /\ s' = s1 /\ p' = p1 /\ choices' = waiting \o choices
GoBack == way' = "back" /\ UNCHANGED <<s, p, choices>>
Abort  == way' = "error" /\ UNCHANGED <<s, p, choices>>

\* How often max_expand can repeat the part at i.
Longest(i, set) == CHOOSE n \in 0 .. End - i : (\A j \in 0 .. n - 1 : In(i + j, set)) /\ ~In(i + n, set)

\* A set with its repetition; max_expand and min_expand leave the next try to be done.
Single(set) ==
  LET m == In(s, set)
      MaxExpand(i) == LET n == Longest(i, set) IN
                      GoOn(i + n, p + 1, IF n = 0 THEN <<>> ELSE <<[Choice("max", n - 1) EXCEPT !.s = i]>>)
  IN
  /\ \/ pattern[p].rep = "1" /\ (IF m THEN GoOn(s + 1, p + 1, <<>>) ELSE GoBack)
     \/ pattern[p].rep = "?" /\ (IF m THEN GoOn(s + 1, p + 1, <<Choice("min", 0)>>) ELSE GoOn(s, p + 1, <<>>))
     \/ pattern[p].rep = "*" /\ MaxExpand(s)
     \/ pattern[p].rep = "+" /\ (IF m THEN MaxExpand(s + 1) ELSE GoBack)
     \/ pattern[p].rep = "-" /\ GoOn(s, p + 1, IF m THEN <<Choice("min", 1)>> ELSE <<>>)
  /\ UNCHANGED cap

\* start_capture, of a substring or a position; end_capture closes the last one open.
StartCapture(what) ==
  IF Len(cap) >= MaxCaptures THEN Abort /\ UNCHANGED cap
  ELSE cap' = Append(cap, [init |-> s, len |-> what]) /\ GoOn(s, p + 1, <<Choice("start", 0)>>)
EndCapture ==
  IF Open = {} THEN Abort /\ UNCHANGED cap
  ELSE LET l == CHOOSE l \in Open : \A m \in Open : m <= l IN
       cap' = [cap EXCEPT ![l].len = s - cap[l].init] /\ GoOn(s, p + 1, <<Choice("end", l)>>)

\* match_capture: the substring captured comes again.
MatchCapture(l) ==
  /\ IF l \notin DOMAIN cap \ Open THEN Abort
     ELSE LET c == cap[l] IN
          IF c.len # Position /\ c.len <= End - s
             /\ \A i \in 0 .. c.len - 1 : subject[c.init + i] = subject[s + i]
          THEN GoOn(s + c.len, p + 1, <<>>) ELSE GoBack
  /\ UNCHANGED cap

\* matchbalance: to the place where as many e as b have come.
Excess(from, to, b, e) ==
  Cardinality({i \in from .. to : subject[i] = b}) - Cardinality({i \in from .. to : subject[i] = e})
Balance(b, e) ==
  LET ends == {i \in s + 1 .. Len(subject) : subject[i] = e /\ Excess(s, i, b, e) = 0} IN
  /\ IF ~In(s, {b}) \/ ends = {} THEN GoBack
     ELSE GoOn(1 + CHOOSE i \in ends : \A j \in ends : i <= j, p + 1, <<>>)
  /\ UNCHANGED cap

Frontier(set) ==
  /\ IF (s > 1 /\ In(s - 1, set)) \/ ~In(s, set) THEN GoBack ELSE GoOn(s, p + 1, <<>>)
  /\ UNCHANGED cap
AtEnd == (IF s = End THEN GoOn(s, p + 1, <<>>) ELSE GoBack) /\ UNCHANGED cap

Part ==
  /\ way = "on" /\ p <= Len(pattern)
  /\ LET part == pattern[p] IN
     \/ part.op = "set" /\ Single(part.set)
     \/ part.op = "(" /\ StartCapture(Unfinished)
     \/ part.op = "()" /\ StartCapture(Position)
     \/ part.op = ")" /\ EndCapture
     \/ part.op = "%1" /\ MatchCapture(1)
     \/ part.op = "%b" /\ Balance("a", "b")
     \/ part.op = "%f" /\ Frontier(part.set)
     \/ part.op = "$" /\ AtEnd
     \/ part.op = "^" /\ GoBack /\ UNCHANGED cap  \* a character like any other, for gmatch
  /\ UNCHANGED <<input, task, src, outcome>>
\* The whole pattern has been matched.  A capture left open is an error where captures
\* are pushed (push_onecapture).
PatternEnds ==
  /\ way = "on" /\ p > Len(pattern)
  /\ way' = IF Open = {} THEN "found" ELSE "error"
  /\ UNCHANGED <<input, task, src, s, p, cap, choices, outcome>>

\* Mutant: the end of a capture stays.
UndoneStays(c) == IF c.kind = "start" THEN SubSeq(cap, 1, Len(cap) - 1) ELSE cap
\* What an activation undoes of the captures when it gets its turn.
Undone(c) ==
  CASE c.kind = "start" -> SubSeq(cap, 1, Len(cap) - 1)
    [] c.kind = "end"   -> [cap EXCEPT ![c.n].len = Unfinished]
    [] OTHER            -> cap
\* The innermost activation that waits gets its turn: one repetition less, or one more, or
\* none where one is optional; it fails too when it has nothing else to try.
Back ==
  /\ way = "back"
  /\ IF choices = <<>> THEN way' = "none" /\ UNCHANGED <<s, p, cap, choices>>
     ELSE LET c == Head(choices)
              again == <<[c EXCEPT !.n = @ - 1]>> \o Tail(choices)
              longer == IF In(c.s + 1, pattern[c.p].set) THEN <<[c EXCEPT !.s = @ + 1]>> ELSE <<>>
          IN
          /\ cap' = Undone(c)
          /\ \/ /\ c.kind = "max" /\ way' = "on" /\ s' = c.s + c.n /\ p' = c.p + 1
                /\ choices' = IF c.n = 0 THEN Tail(choices) ELSE again
             \/ /\ c.kind = "min" /\ way' = "on" /\ s' = c.s + c.n /\ p' = c.p + 1
                /\ choices' = (IF c.n = 0 THEN <<>> ELSE longer) \o Tail(choices)
             \/ /\ c.kind \in {"start", "end"} /\ way' = "back"
                /\ choices' = Tail(choices) /\ UNCHANGED <<s, p>>
  /\ UNCHANGED <<input, task, src, outcome>>

-----------------------------------------------------------------------------

MatchInit ==
  /\ subject = <<>> /\ pattern = <<>> /\ task = "idle" /\ src = 1
  /\ way = "none" /\ s = 1 /\ p = 1 /\ cap = <<>> /\ choices = <<>>
  /\ found = [from |-> 0, to |-> 0, cap |-> <<>>]
  /\ text = <<>> /\ replacing = <<>> /\ iterating = <<>>

\* match is called at i, by the loop of the task.
MatchAt(i, pi) == src' = i /\ way' = "on" /\ s' = i /\ p' = pi /\ cap' = <<>> /\ choices' = <<>>
Over           == task' = "over" /\ UNCHANGED <<src, way, s, p, cap, choices>>
Pass(i)        == task' = task /\ MatchAt(i, IF Anchored /\ task # "gmatch" THEN 2 ELSE 1)

Ask(sub, pat) ==
  /\ subject' = sub /\ pattern' = pat
  /\ task' = "find" /\ MatchAt(1, IF pat # <<>> /\ pat[1].op = "^" THEN 2 ELSE 1)
  /\ UNCHANGED outcome

\* str_find_aux: the first place where there is a match, which is the first place of all
\* where the pattern is anchored.
BeginGsub == task' = "gsub" /\ MatchAt(1, IF Anchored THEN 2 ELSE 1)
FindTurn ==
  /\ task = "find"
  /\ \/ way = "found" /\ found' = [from |-> src, to |-> s, cap |-> cap] /\ BeginGsub
     \/ way = "none" /\ src < End /\ ~Anchored /\ Pass(src + 1) /\ UNCHANGED found
     \/ way = "none" /\ (src = End \/ Anchored) /\ BeginGsub /\ UNCHANGED found
     \/ way = "error" /\ Over /\ UNCHANGED found
  /\ UNCHANGED <<input, text, replacing, iterating>>

\* A turn of the loop of str_gsub adds the match, and goes on behind it; or behind the next
\* character, which is copied, if the match is empty or there is none.
Piece(from, to) == IF from < to THEN SubSeq(subject, from, to - 1) ELSE <<>>
Onward == IF way = "found" /\ s > src THEN s ELSE IF src < End THEN src + 1 ELSE src
\* Mutant: the character behind an empty match is not copied.
CopiedNone == IF way = "found" THEN Piece(src, s) ELSE Piece(src, Onward)
Copied == Piece(src, Onward)
GsubTurn ==
  /\ task = "gsub" /\ way \in {"found", "none"}
  /\ replacing' = IF way = "found" THEN Append(replacing, [from |-> src, to |-> s]) ELSE replacing
  /\ \/ Onward > src /\ ~Anchored /\ Pass(Onward) /\ text' = text \o Copied
     \/ /\ Onward = src \/ Anchored
        /\ task' = "gmatch" /\ MatchAt(1, 1) /\ text' = text \o Copied \o Piece(Onward, End)
  /\ UNCHANGED <<input, found, iterating>>

\* The loop of gmatch_aux; the next call of the iterator begins behind the match, an empty
\* one counted as one character.
PastMatch == IF s = src THEN s + 1 ELSE s
GmatchTurn ==
  /\ task = "gmatch" /\ way \in {"found", "none"}
  /\ iterating' = IF way = "found" THEN Append(iterating, [from |-> src, to |-> s]) ELSE iterating
  /\ LET next == IF way = "found" THEN PastMatch ELSE src + 1 IN
     IF next > End THEN Over ELSE Pass(next)
  /\ UNCHANGED <<input, found, text, replacing>>

MatchNext ==
  \/ task = "idle" /\ \E sub \in Subjects, pat \in Patterns : Ask(sub, pat)
  \/ Part \/ PatternEnds \/ Back \/ FindTurn \/ GsubTurn \/ GmatchTurn
MatchSpec == MatchInit /\ [][MatchNext]_matchVars

-----------------------------------------------------------------------------
(* Properties.                                                              *)

\* A pattern whose captures are closed in order and before they are asked for.
Count(pat, n, op) == Cardinality({i \in 1 .. n : pat[i].op = op})
WellFormed(pat) ==
  /\ \A i \in 1 .. Len(pat) :
       /\ Count(pat, i, ")") <= Count(pat, i, "(")
       /\ pat[i].op = "%1" =>
            \E j \in 1 .. i : pat[j].op \in {"()", ")"} /\ Count(pat, j, "(") = Count(pat, j, ")")
  /\ Count(pat, Len(pat), "(") = Count(pat, Len(pat), ")")
  /\ Count(pat, Len(pat), "(") + Count(pat, Len(pat), "()") <= MaxCaptures

\* The captures of a pattern that is matched with its i-th part ending at cut[i].
Captured(cut) ==
  LET begins == {i \in DOMAIN pattern : pattern[i].op \in {"(", "()"}}
      nth(l) == CHOOSE i \in begins : Cardinality({j \in begins : j <= i}) = l
      close(i) == CHOOSE j \in i .. Len(pattern) :
                    /\ Count(pattern, j, ")") - Count(pattern, i, ")") = Count(pattern, j, "(") - Count(pattern, i - 1, "(")
                    /\ \A k \in i .. j - 1 : Count(pattern, k, ")") - Count(pattern, i, ")")
                                              < Count(pattern, k, "(") - Count(pattern, i - 1, "(")
  IN  [l \in 1 .. Cardinality(begins) |->
         LET i == nth(l) IN
         [init |-> cut[i], len |-> IF pattern[i].op = "()" THEN Position ELSE cut[close(i)] - cut[i]]]

\* The meaning of a part: whether it can match from `from' to `to'.
Means(i, from, to, cut) ==
  LET part == pattern[i]  all(set) == \A j \in from .. to - 1 : subject[j] \in set IN
  CASE part.op \in {"(", "()", ")"} -> to = from
    [] part.op = "$"  -> to = from /\ from = End
    [] part.op = "^"  -> to = from /\ from = 1 /\ i = 1
    [] part.op = "%f" -> to = from /\ In(from, part.set) /\ ~(from > 1 /\ In(from - 1, part.set))
    [] part.op = "%b" -> /\ to - from >= 2 /\ subject[from] = "a" /\ Excess(from, to - 1, "a", "b") = 0
                         /\ \A j \in from .. to - 2 : Excess(from, j, "a", "b") > 0
    [] part.op = "%1" -> LET c == Captured(cut)[1] IN
                         c.len # Position /\ SubSeq(subject, from, to - 1) = SubSeq(subject, c.init, c.init + c.len - 1)
    [] part.op = "set" -> /\ all(part.set)
                          /\ to - from \in (CASE part.rep = "1" -> {1} [] part.rep = "?" -> {0, 1}
                                              [] part.rep = "+" -> 1 .. End [] OTHER -> 0 .. End)
Cuts(from) ==
  {cut \in [0 .. Len(pattern) -> from .. End] :
     cut[0] = from /\ \A i \in 1 .. Len(pattern) : cut[i - 1] <= cut[i] /\ Means(i, cut[i - 1], cut[i], cut)}
\* The first part where they differ is longer; shorter, if it is to be matched lazily.
Better(a, b) ==
  \E i \in 1 .. Len(pattern) :
    /\ \A j \in 1 .. i - 1 : a[j] = b[j]
    /\ IF pattern[i].op = "set" /\ pattern[i].rep = "-" THEN a[i] < b[i] ELSE a[i] > b[i]

\* find returns the leftmost match, of those the one where each part in turn is as long as
\* it may be, or as short, and the captures of that match, whatever the matcher has tried
\* and undone before (match); and no well-formed pattern raises an error.
BestMatch(from) == CHOOSE a \in Cuts(from) : \A b \in Cuts(from) : a = b \/ Better(a, b)
FindIsRight ==
  LET places == {i \in 1 .. End : Cuts(i) # {}} IN
  IF places = {} THEN found.from = 0
  ELSE LET first == CHOOSE i \in places : \A j \in places : i <= j
           best  == BestMatch(first)
       IN  found = [from |-> first, to |-> best[Len(pattern)], cap |-> Captured(best)]
LeftmostBest ==
  /\ way = "error" => ~WellFormed(pattern)
  /\ task = "gmatch" /\ src = 1 /\ way = "on" /\ p = 1 /\ WellFormed(pattern) => FindIsRight

\* gsub changes nothing but the matches: replacing each by itself gives the subject, empty
\* ones included (str_gsub); and gmatch, whose loop is another one, meets the same matches.
GsubAsGmatch ==
  /\ task = "gmatch" => text = subject
  /\ task = "over" /\ way # "error" /\ ~Anchored => iterating = replacing
=============================================================================
