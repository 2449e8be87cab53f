------------------------------- MODULE Wildcard -------------------------------
(***************************************************************************)
(* wildcard_match of control_plane.rs, of which bin/agctl.rs has a copy:   *)
(* the text between the stars is looked for from the left, and a text that *)
(* was found is never looked for again further right.  Patterns and names  *)
(* are sequences of characters, Star is the character '*'.                 *)
(***************************************************************************)
EXTENDS Integers, Sequences, SequencesExt

CONSTANTS
  Char,      \* characters of patterns and names
  Star,      \* the character '*'
  MaxText    \* bound: characters of a pattern and of a name

ASSUME WildcardAssumption == Star \in Char /\ MaxText \in Nat

VARIABLE match   \* the question, how far the loop is, the answer

Texts == UNION {[1..n -> Char] : n \in 0..MaxText}

NoMatch ==
  [pc |-> "idle", pattern |-> <<>>, name |-> <<>>, start |-> 1, passed |-> 0,
   first |-> TRUE, answer |-> FALSE]
WildcardIdle == match = NoMatch

-----------------------------------------------------------------------------
(* What a pattern means: a star stands for any text, the rest for itself.  *)
(* A cut of the name gives to every character of the pattern its share:    *)
(* the first cut[i] characters go to what is before the i-th.              *)

Shares(cut, pattern, name, i) ==
  IF pattern[i] = Star THEN cut[i] <= cut[i + 1]
  ELSE cut[i + 1] = cut[i] + 1 /\ name[cut[i + 1]] = pattern[i]

Glob(pattern, name) ==
  \E cut \in [1..Len(pattern) + 1 -> 0..Len(name)] :
    /\ cut[1] = 0 /\ cut[Len(pattern) + 1] = Len(name)
    /\ \A i \in 1..Len(pattern) : Shares(cut, pattern, name, i)

-----------------------------------------------------------------------------
(* What the code does *)

(* The text that pattern.split('*') has from start on ends before a star. *)
NextStar(pattern, start) ==
  Min({i \in start..Len(pattern) : pattern[i] = Star} \cup {Len(pattern) + 1})
Part(pattern, start) == SubSeq(pattern, start, NextStar(pattern, start) - 1)

(* After how many characters of the name the part is found. *)
Occurrences(part, name) ==
  {at \in 0..Len(name) - Len(part) : SubSeq(name, at + 1, at + Len(part)) = part}

(* Mutant: what remains starts at the text that was found. *)
PassedNot(at, part) == at
Passed(at, part) == at + Len(part)

Compare ==
  /\ WildcardIdle
  /\ \E pattern, name \in Texts :
       match' = [match EXCEPT !.pattern = pattern, !.name = name,
                   !.pc = IF Star \in ToSet(pattern) THEN "loop" ELSE "done",
                   !.answer = Star \notin ToSet(pattern) /\ pattern = name]

Answered(answer) == match' = [match EXCEPT !.pc = "done", !.answer = answer]

(* One turn of the loop: the first part must come first, unless a star is  *)
(* before it; the others may come anywhere in what remains.                *)
TakePart ==
  /\ match.pc = "loop" /\ match.start <= Len(match.pattern) + 1
  /\ LET part == Part(match.pattern, match.start)
         after == NextStar(match.pattern, match.start) + 1
         anchored == match.first /\ match.pattern[1] # Star
         found == {at \in Occurrences(part, match.name) :
                     IF anchored THEN at = match.passed ELSE at >= match.passed}
     IN IF part = <<>> THEN match' = [match EXCEPT !.start = after]
        ELSE IF found = {} THEN Answered(FALSE)
        ELSE match' = [match EXCEPT !.start = after, !.first = FALSE,
                                    !.passed = Passed(Min(found), part)]

Conclude ==
  /\ match.pc = "loop" /\ match.start > Len(match.pattern) + 1
  /\ Answered(Last(match.pattern) = Star \/ match.passed = Len(match.name))

Forget == match.pc = "done" /\ match' = NoMatch

WildcardInit == WildcardIdle
WildcardNext == Compare \/ TakePart \/ Conclude \/ Forget

-----------------------------------------------------------------------------
(* A match is never claimed where a star would have to stand for something *)
(* it cannot: a policy covers no name that its pattern does not mean.  And *)
(* a pattern that ends with its star, or has none, covers every name that  *)
(* it means; only with text after the last star can going on from the left *)
(* miss one, because the first occurrence of that text may not be the last *)
(* one.                                                                    *)
MatchesAreMeant ==
  match.pc = "done" =>
    LET meant == Glob(match.pattern, match.name)
        exact == \/ Star \notin ToSet(match.pattern)
                 \/ match.pattern # <<>> /\ Last(match.pattern) = Star
    IN /\ match.answer => meant
       /\ exact /\ ~match.answer => ~meant

==============================================================================
