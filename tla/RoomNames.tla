------------------------------ MODULE RoomNames ------------------------------
(* backend/app/core/slug.py: the names of rooms. A text is a sequence of runs *)
(* of letters and digits, with "-" for every run of anything else between     *)
(* them; a slug is what is left of it, without the dashes that its runs are   *)
(* joined with.                                                               *)
EXTENDS Naturals, FiniteSets, SequencesExt

CONSTANTS
  MaxNumeral,  \* bound: numbers that a run may be
  MaxLength,   \* bound: runs of a valid slug (100 characters in the code)
  Texts        \* texts that a migrated database may hold as names

(* Each number is written in its own way, and as no word that has a meaning   *)
(* in a name.                                                                 *)
ASSUME NumeralAssumption ==
  /\ MaxNumeral \in Nat /\ MaxNumeral >= 3
  /\ \A m, n \in 0..MaxNumeral : ToString(m) = ToString(n) => m = n
  /\ \A n \in 0..MaxNumeral : ToString(n) \in STRING \ {"-", "DM", "dm", "room"}

(* (The provers have to be told that literals are strings.)                   *)
ASSUME WordAssumption == {"dm", "room"} \subseteq STRING

ASSUME TextsAssumption == Texts \subseteq Seq(STRING)

Lower(run)     == IF run = "DM" THEN "dm" ELSE run
Canonical(text) ==
  LET slug[i \in 0..Len(text)] ==
        IF i = 0 THEN <<>>
        ELSE IF text[i] = "-" THEN slug[i - 1]
        ELSE Append(slug[i - 1], Lower(text[i]))
  IN  slug[Len(text)]

DmName(a, b) ==
  LET low == IF a < b THEN a ELSE b
      high == IF a < b THEN b ELSE a
  IN  <<"dm", ToString(low), ToString(high)>>

IsDigit(slug)  == Len(slug) = 1 /\ slug[1] \in {ToString(n) : n \in 0..MaxNumeral}

(* startswith("dm-"): the slug "dm" alone is not reserved.                    *)
Reserved(slug) == Len(slug) > 1 /\ slug[1] = "dm"

(* Mutant: the prefix is not refused.                                         *)
ValidUnlessNumeric(slug) == slug # <<>> /\ Len(slug) <= MaxLength /\ ~IsDigit(slug)

ValidGroupSlug(slug) ==
  /\ slug # <<>>
  /\ Len(slug) <= MaxLength
  /\ ~IsDigit(slug)
  /\ ~Reserved(slug)

(* plan_room_name_dedup(): the base of a row's new name, and the first of     *)
(* base, base-2, base-3, ... that no earlier row was given.                   *)
Base(slug) ==
  IF slug = <<>> THEN <<"room">>
  ELSE IF IsDigit(slug) \/ Reserved(slug) THEN <<"room">> \o slug
  ELSE slug

Suffixed(base, n) == IF n = 1 THEN base ELSE Append(base, ToString(n))

(* Mutant: the first suffix is not compared with the names given before.      *)
SecondIsFree(base, assigned) == IF base \in assigned THEN Suffixed(base, 2) ELSE base

FirstFree(base, assigned) ==
  Suffixed(base, CHOOSE n \in 1..(Cardinality(assigned) + 1) :
                   /\ Suffixed(base, n) \notin assigned
                   /\ \A m \in 1..(n - 1) : Suffixed(base, m) \in assigned)

Planned(texts) ==
  LET names[i \in 0..Len(texts)] ==
        IF i = 0 THEN <<>>
        ELSE LET given == names[i - 1]
             IN  Append(given, FirstFree(Base(Canonical(texts[i])), ToSet(given)))
  IN  names[Len(texts)]

-------------------------------------------------------------------------------
(* The shape of a DM room's name.                                             *)
LikeDmName(slug) == Len(slug) = 3 /\ slug[1] = "dm"

(* The planner keeps its promises (migration b1e2c3d4a5f2), whatever names    *)
(* the rows had: the new ones are distinct, each is the text's own slug or    *)
(* one prefix and one suffix longer, the first row to ask for a valid slug    *)
(* gets it, none is numeric or the name of a DM room. None is reserved and    *)
(* planning again changes nothing, unless "dm" itself was asked for twice:    *)
(* the second row is then given the reserved name dm-2.                       *)
SoundPlan(texts) ==
  LET names == Planned(texts)
      slug(i) == Canonical(texts[i])
      bare == {i \in DOMAIN texts : slug(i) = <<"dm">>}
  IN  /\ DOMAIN names = DOMAIN texts /\ IsInjective(names)
      /\ \A i \in DOMAIN names :
           /\ names[i] # <<>> /\ ~IsDigit(names[i]) /\ ~LikeDmName(names[i])
           /\ Len(names[i]) <= Len(slug(i)) + 2
           /\ ValidGroupSlug(slug(i)) /\ (\A j \in 1..(i - 1) : names[j] # slug(i))
                => names[i] = slug(i)
           /\ Reserved(names[i]) => Cardinality(bare) > 1 /\ i \in bare
      /\ (\A i \in DOMAIN names : ~Reserved(names[i])) => Planned(names) = names

(* Of every table of up to three rows; NamesProofs has it of all tables.      *)
PlanIsSound == \A texts \in SeqOf(Texts, 3) : SoundPlan(texts)
===============================================================================
