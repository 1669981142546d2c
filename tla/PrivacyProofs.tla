--------------------------- MODULE PrivacyProofs ---------------------------
(***************************************************************************)
(* What the privacy review keeps for any texts, names, records and         *)
(* uploads, whatever the mapper answers: its types, the reason given for   *)
(* every plan left unresolved, that no worker gives a name to a second     *)
(* person, that normalize leaves no alias and guesses between no two       *)
(* people, and that whoever the registry held when a review began is       *)
(* hidden in what it releases.                                             *)
(***************************************************************************)
EXTENDS Privacy, FiniteSetTheorems, SequenceTheorems, WellFoundedInduction, TLAPS

\* The people of a registry are rows.
Rows(registry) ==
    /\ DOMAIN registry \subseteq Identifier
    /\ \A p \in DOMAIN registry : registry[p] \in PersonRow

\* An entity is of its text: a person is written as a name, a contact as a contact.
Read(text, e) ==
    /\ e \in EntityType
    /\ e.start < e.end /\ e.end <= Len(text)
    /\ e.kind = "person" => Words(text, e) \in Name
    /\ e.kind = "contact" => Words(text, e) \in Contact

\* No range is two people.
OnePerson(entities) ==
    \A e, f \in entities :
        e.kind = "person" /\ f.kind = "person" /\ RangeOf(e) = RangeOf(f) => e = f

\* Plans by their fields; what is read from a text, by its words.
PlanType == [entities : SUBSET EntityType, edits : SUBSET RangeType, revision : Nat]

\* All that is read from a text.
ReadAll(text, entities) == (\A e \in entities : Read(text, e)) /\ OnePerson(entities)

\* A plan of a text.
PlanOf(text, plan) == plan \in PlanType /\ ReadAll(text, plan.entities)

-----------------------------------------------------------------------------
(* One pass. *)

\* A set with one element has it.
LEMMA TheOne ==
    ASSUME NEW S, Cardinality(S) = 1 \/ S # {}
    PROVE  The(S) \in S
<1>1. S # {}
      BY FS_EmptySet
<1> QED BY <1>1 DEF The

\* A range of a text.
LEMMA RangeOfText ==
    ASSUME NEW text, Len(text) \in Nat, NEW r \in Ranges(text)
    PROVE  /\ r.start \in Nat /\ r.end \in Nat /\ r.start < r.end /\ r.end <= Len(text)
           /\ r = [start |-> r.start, end |-> r.end]
BY DEF Ranges

\* What the mapper's decisions leave of the candidates.
LEMMA LabelsRead ==
    ASSUME NEW text, Len(text) \in Nat, NEW registry, Rows(registry),
           NEW L \in Labels(text, registry)
    PROVE  /\ \A e \in L : Read(text, e) /\ e.kind \in {"person", "contact"}
           /\ \A e, f \in L : RangeOf(e) = RangeOf(f) => e = f
<1> DEFINE labelled(r) ==
               {Labelled(text, r, d, registry) : d \in Decision(registry, Words(text, r))}
           shaped == {e \in UNION {labelled(r) : r \in Candidates(text, registry)} :
                         HasShape(text, e)}
<1>1. /\ L \in SUBSET shaped
      /\ \A r \in Candidates(text, registry) :
             \E e \in labelled(r) :
                 {l \in L : RangeOf(l) = r} = {l \in {e} : HasShape(text, l)}
      BY DEF Labels
<1>2. ASSUME NEW e \in L
      PROVE  /\ Read(text, e) /\ e.kind \in {"person", "contact"}
             /\ RangeOf(e) \in Candidates(text, registry)
  <2>1. HasShape(text, e)
        BY <1>1
  <2>2. PICK r \in Candidates(text, registry) : e \in labelled(r)
        BY <1>1
  <2>3. PICK d \in Decision(registry, Words(text, r)) : e = Labelled(text, r, d, registry)
        BY <2>2
  <2>4. r \in Ranges(text)
        BY DEF Candidates, Matches
  <2> DEFINE words  == Words(text, r)
             owners == NamedBy(registry, words)
             kind   == IF Cardinality(owners) = 1 THEN "person" ELSE d.kind
             hint   == CASE Cardinality(owners) = 1 -> The(owners)
                         [] kind = "person" -> IF d.hint = None THEN words ELSE d.hint
                         [] kind = "contact" /\ d.hint # None ->
                                IF <<registry[d.hint].display_name, words>> \in Supports
                                THEN d.hint ELSE None
                         [] OTHER -> None
  <2>5. e = [start |-> r.start, end |-> r.end, kind |-> kind, hint |-> hint]
        BY <2>3 DEF Labelled
  <2>6. /\ e.start = r.start /\ e.end = r.end /\ e.kind = kind /\ e.hint = hint
        /\ RangeOf(e) = r /\ Words(text, e) = words
        BY <2>4, <2>5, RangeOfText DEF RangeOf, Words
  <2>7. \/ kind = "person" /\ words \in Name
        \/ kind = "contact" /\ words \in Contact
        BY <2>1, <2>6 DEF HasShape
  <2>8. d.hint = None \/ d.hint \in Identifier
        BY DEF Decision, Rows
  <2>9. Cardinality(owners) = 1 => The(owners) \in Identifier
        BY TheOne DEF NamedBy, Rows
  <2> HIDE DEF owners, words
  <2>10. hint \in Hint
        BY <2>7, <2>8, <2>9 DEF Hint
  <2> HIDE DEF hint, kind
  <2>11. e \in EntityType
        BY <2>4, <2>5, <2>7, <2>10, RangeOfText DEF EntityType
  <2>12. e.start < e.end /\ e.end <= Len(text)
         BY <2>4, <2>6, RangeOfText
  <2> QED BY <2>6, <2>7, <2>11, <2>12 DEF Read
<1>3. ASSUME NEW e \in L, NEW f \in L, RangeOf(e) = RangeOf(f)
      PROVE  e = f
      BY <1>1, <1>2, <1>3
<1> QED BY <1>2, <1>3

\* Patterns add contacts and identifiers to the labels; a person has its range alone.
LEMMA DeterministicRead ==
    ASSUME NEW text, Len(text) \in Nat, NEW L, \A e \in L : Read(text, e),
           \A e, f \in L : RangeOf(e) = RangeOf(f) => e = f
    PROVE  /\ \A e \in Deterministic(text, L) : Read(text, e)
           /\ \A e, f \in Deterministic(text, L) :
                  RangeOf(e) = RangeOf(f) /\ e.kind = "person" => e = f
<1> DEFINE kept     == {e \in L : RangeOf(e) \notin Matches(text, PersonalId)}
           contacts == {Plain(r, "contact", None) :
                           r \in Matches(text, Contact) \ {RangeOf(e) : e \in L}}
           ids      == {Plain(r, "personal_identifier", None) : r \in Matches(text, PersonalId)}
<1>1. Deterministic(text, L) = kept \cup contacts \cup ids
      BY DEF Deterministic
<1>2. ASSUME NEW e \in contacts
      PROVE  Read(text, e) /\ e.kind = "contact" /\ RangeOf(e) \notin {RangeOf(f) : f \in L}
  <2>1. PICK r \in Matches(text, Contact) \ {RangeOf(f) : f \in L} : e = Plain(r, "contact", None)
        OBVIOUS
  <2>2. r \in Ranges(text) /\ Words(text, r) \in Contact
        BY DEF Matches
  <2>3. /\ e.start = r.start /\ e.end = r.end /\ e.kind = "contact"
        /\ e \in EntityType /\ RangeOf(e) = r /\ e.start < e.end /\ e.end <= Len(text)
        BY <2>1, <2>2, RangeOfText DEF Plain, EntityType, Hint, RangeOf
  <2>4. Words(text, e) = Words(text, r)
        BY <2>3 DEF Words
  <2> QED BY <2>1, <2>2, <2>3, <2>4 DEF Read
<1>3. ASSUME NEW e \in ids
      PROVE  /\ Read(text, e) /\ e.kind = "personal_identifier"
             /\ RangeOf(e) \in Matches(text, PersonalId)
  <2>1. PICK r \in Matches(text, PersonalId) : e = Plain(r, "personal_identifier", None)
        OBVIOUS
  <2>2. r \in Ranges(text)
        BY DEF Matches
  <2>3. /\ e.kind = "personal_identifier" /\ e \in EntityType /\ RangeOf(e) = r
        /\ e.start < e.end /\ e.end <= Len(text)
        BY <2>1, <2>2, RangeOfText DEF Plain, EntityType, Hint, RangeOf
  <2> QED BY <2>3 DEF Read
<1> HIDE DEF contacts, ids
<1>4. \A e \in Deterministic(text, L) : Read(text, e)
      BY <1>1, <1>2, <1>3
<1>5. ASSUME NEW e \in Deterministic(text, L), NEW f \in Deterministic(text, L),
             RangeOf(e) = RangeOf(f), e.kind = "person"
      PROVE  e = f
  <2>1. e \in kept
        BY <1>1, <1>2, <1>3, <1>5
  <2>2. f \in kept
        BY <1>1, <1>2, <1>3, <1>5, <2>1
  <2> QED BY <1>5, <2>1, <2>2
<1> QED BY <1>4, <1>5

\* What the registry knows of the text.
LEMMA KnownRead ==
    ASSUME NEW text, Len(text) \in Nat, NEW registry, Rows(registry)
    PROVE  ReadAll(text, Known(text, registry))
<1> DEFINE ranges == {q \in Matches(text, {registry[p].display_name : p \in DOMAIN registry}) :
                          Cardinality({p \in DOMAIN registry :
                              registry[p].display_name = Words(text, q)}) = 1}
           person(r) == Plain(r, "person", The(CalledBy(registry, Words(text, r))))
           persons   == {person(r) : r \in ranges}
           contacts(p) == {Plain(r, "contact", p) : r \in Matches(text, registry[p].contacts)}
<1>1. Known(text, registry) = persons \cup UNION {contacts(p) : p \in DOMAIN registry}
      BY DEF Known
<1>2. ASSUME NEW r \in ranges
      PROVE  /\ Read(text, person(r)) /\ RangeOf(person(r)) = r
  <2>1. r \in Ranges(text)
        BY DEF Matches
  <2>2. PICK p \in DOMAIN registry : Words(text, r) = registry[p].display_name
        BY DEF Matches
  <2>3. p \in CalledBy(registry, Words(text, r)) /\ registry[p].display_name \in Name
        BY <2>2 DEF CalledBy, Aliases, Rows, PersonRow
  <2>4. The(CalledBy(registry, Words(text, r))) \in Identifier
        BY <2>3, TheOne DEF CalledBy, Rows
  <2>5. /\ person(r).start = r.start /\ person(r).end = r.end /\ person(r).kind = "person"
        /\ person(r) \in EntityType /\ RangeOf(person(r)) = r
        /\ person(r).start < person(r).end /\ person(r).end <= Len(text)
        BY <2>1, <2>4, RangeOfText DEF Plain, EntityType, Hint, RangeOf
  <2> HIDE DEF person
  <2>6. Words(text, person(r)) \in Name
        BY <2>2, <2>3, <2>5 DEF Words
  <2> QED BY <2>5, <2>6 DEF Read
<1>3. ASSUME NEW p \in DOMAIN registry, NEW e \in contacts(p)
      PROVE  Read(text, e) /\ e.kind = "contact"
  <2>1. PICK r \in Matches(text, registry[p].contacts) : e = Plain(r, "contact", p)
        OBVIOUS
  <2>2. r \in Ranges(text) /\ Words(text, r) \in Contact /\ p \in Identifier
        BY DEF Matches, Rows, PersonRow
  <2>3. /\ e.start = r.start /\ e.end = r.end /\ e.kind = "contact" /\ e \in EntityType
        /\ e.start < e.end /\ e.end <= Len(text)
        BY <2>1, <2>2, RangeOfText DEF Plain, EntityType, Hint
  <2>4. Words(text, e) = Words(text, r)
        BY <2>3 DEF Words
  <2> QED BY <2>2, <2>3, <2>4 DEF Read
<1> HIDE DEF contacts, ranges
<1>4. ASSUME NEW e \in persons
      PROVE  Read(text, e) /\ RangeOf(e) \in ranges /\ e = person(RangeOf(e))
      BY <1>2
<1> HIDE DEF persons
<1>5. \A e \in Known(text, registry) : Read(text, e)
      BY <1>1, <1>3, <1>4
<1>6. ASSUME NEW e \in Known(text, registry), NEW f \in Known(text, registry),
             e.kind = "person", f.kind = "person", RangeOf(e) = RangeOf(f)
      PROVE  e = f
  <2>1. e \in persons /\ f \in persons
        BY <1>1, <1>3, <1>6
  <2> QED BY <1>4, <1>6, <2>1
<1> QED BY <1>5, <1>6 DEF ReadAll, OnePerson

\* Of two entities for one range one is kept.
LEMMA DeduplicatedRead ==
    ASSUME NEW text, NEW first, NEW second, \A e \in first : Read(text, e),
           \A e, f \in first : RangeOf(e) = RangeOf(f) /\ e.kind = "person" => e = f,
           ReadAll(text, second)
    PROVE  ReadAll(text, Deduplicated(first, second))
<1> DEFINE better(e) == {f \in second : RangeOf(f) = RangeOf(e) /\ f.hint # None /\ e.hint = None}
           added     == {f \in second : RangeOf(f) \notin {RangeOf(e) : e \in first}}
           best(e)   == IF better(e) = {} THEN e ELSE The(better(e))
           other(r)  == The({f \in added : RangeOf(f) = r})
           ranges    == {RangeOf(f) : f \in added}
<1>1. Deduplicated(first, second) = {best(e) : e \in first} \cup {other(r) : r \in ranges}
      BY DEF Deduplicated
<1>2. ASSUME NEW e \in first
      PROVE  /\ Read(text, best(e)) /\ RangeOf(best(e)) = RangeOf(e)
             /\ best(e) # e => best(e) = The(better(e)) /\ e.hint = None
  <2>1. CASE better(e) = {}
        BY <2>1
  <2>2. CASE better(e) # {}
    <3>1. The(better(e)) \in better(e)
          BY <2>2, TheOne
    <3> QED BY <2>2, <3>1 DEF ReadAll
  <2> QED BY <2>1, <2>2
<1>3. ASSUME NEW r \in ranges
      PROVE  other(r) \in added /\ RangeOf(other(r)) = r
  <2>1. {f \in added : RangeOf(f) = r} # {}
        OBVIOUS
  <2> HIDE DEF added
  <2>2. other(r) \in {f \in added : RangeOf(f) = r}
        BY <2>1, TheOne
  <2> QED BY <2>2
<1>4. \A r \in ranges : Read(text, other(r)) /\ \A e \in first : RangeOf(e) # r
      BY <1>3 DEF ReadAll
<1>5. ASSUME NEW e \in first, NEW f \in first, RangeOf(best(e)) = RangeOf(best(f)),
             best(e).kind = "person", best(f).kind = "person"
      PROVE  best(e) = best(f)
  <2>1. RangeOf(e) = RangeOf(f)
        BY <1>2, <1>5
  <2>2. CASE e.kind = "person" \/ f.kind = "person"
        BY <2>1, <2>2
  <2>3. CASE e.kind # "person" /\ f.kind # "person"
    <3>1. best(e) # e /\ best(f) # f
          BY <1>5, <2>3
    <3>2. e.hint = None /\ f.hint = None
          BY <1>2, <3>1
    <3>3. better(e) = better(f)
          BY <2>1, <3>2
    <3>4. best(e) = The(better(e)) /\ best(f) = The(better(f))
          BY <1>2, <3>1
    <3> HIDE DEF better, best
    <3> QED BY <3>3, <3>4
  <2> QED BY <2>2, <2>3
<1> HIDE DEF best, other, ranges
<1>6. \A e \in Deduplicated(first, second) : Read(text, e)
      BY <1>1, <1>2, <1>4
<1>7. ASSUME NEW e \in Deduplicated(first, second), NEW f \in Deduplicated(first, second),
             e.kind = "person", f.kind = "person", RangeOf(e) = RangeOf(f)
      PROVE  e = f
  <2>1. CASE \E x, y \in first : e = best(x) /\ f = best(y)
        BY <1>5, <1>7, <2>1
  <2>2. CASE \E r, q \in ranges : e = other(r) /\ f = other(q)
        BY <1>3, <1>7, <2>2
  <2>3. CASE \E x \in first, r \in ranges :
                 \/ e = best(x) /\ f = other(r)
                 \/ f = best(x) /\ e = other(r)
    <3>1. PICK x \in first, r \in ranges :
              \/ e = best(x) /\ f = other(r)
              \/ f = best(x) /\ e = other(r)
          BY <2>3
    <3>2. RangeOf(best(x)) = RangeOf(x) /\ RangeOf(other(r)) = r /\ RangeOf(x) # r
          BY <1>2, <1>3, <1>4
    <3> QED BY <1>7, <3>1, <3>2
  <2> QED BY <1>1, <2>1, <2>2, <2>3
<1> QED BY <1>6, <1>7 DEF ReadAll, OnePerson

\* All entities of a pass, before those inside of others are left out.
Joined(text, L, registry) == Deduplicated(Deterministic(text, L), Known(text, registry))

\* They are of the text.
LEMMA JoinedRead ==
    ASSUME NEW text, Len(text) \in Nat, NEW registry, Rows(registry),
           NEW L \in Labels(text, registry)
    PROVE  ReadAll(text, Joined(text, L, registry))
<1> DEFINE first == Deterministic(text, L)
<1>1. /\ \A e \in first : Read(text, e)
      /\ \A e, f \in first : RangeOf(e) = RangeOf(f) /\ e.kind = "person" => e = f
      BY LabelsRead, DeterministicRead
<1> HIDE DEF first
<1>2. ReadAll(text, Deduplicated(first, Known(text, registry)))
      BY <1>1, KnownRead, DeduplicatedRead
<1> QED BY <1>2 DEF Joined, first

\* What a pass over a text returns.
LEMMA EntitiesRead ==
    ASSUME NEW text, Len(text) \in Nat, NEW registry, Rows(registry),
           NEW L \in Labels(text, registry)
    PROVE  ReadAll(text, Entities(text, L, registry))
<1> DEFINE all == Joined(text, L, registry)
           bound(e) == Bound(text, e, registry)
<1>1. ReadAll(text, all)
      BY JoinedRead
<1>2. Entities(text, L, registry) = {bound(e) : e \in Collapsed(all)}
      BY DEF Entities, Joined
<1> HIDE DEF all
<1>3. Collapsed(all) \subseteq all
      BY DEF Collapsed
<1>4. ASSUME NEW e \in all
      PROVE  /\ Read(text, bound(e)) /\ RangeOf(bound(e)) = RangeOf(e)
             /\ bound(e).kind = e.kind
  <2> DEFINE words  == Words(text, e)
             full   == NamedBy(registry, words) \cup CalledBy(registry, words)
             owners == IF full # {} THEN full ELSE FirstNamedBy(registry, words)
  <2>1. owners \subseteq DOMAIN registry
        BY DEF NamedBy, CalledBy, FirstNamedBy
  <2>2. Read(text, e) /\ e \in EntityType
        BY <1>1 DEF ReadAll, Read
  <2>3. CASE ~(e.kind = "person" /\ Cardinality(owners) = 1)
    <3>1. bound(e) = e
          BY <2>3 DEF Bound
    <3> QED BY <2>2, <3>1
  <2>4. CASE e.kind = "person" /\ Cardinality(owners) = 1
    <3>1. bound(e) = [e EXCEPT !.hint = The(owners)]
          BY <2>4 DEF Bound
    <3>2. The(owners) \in owners
          BY <2>4, TheOne
    <3>3. The(owners) \in Identifier
          BY <2>1, <3>2 DEF Rows
    <3> HIDE DEF owners
    <3>4. /\ bound(e) \in EntityType /\ bound(e).kind = e.kind
          /\ bound(e).start = e.start /\ bound(e).end = e.end
          BY <2>2, <3>1, <3>3 DEF EntityType, Hint
    <3> QED BY <2>2, <3>4 DEF Read, Words, RangeOf
  <2> QED BY <2>3, <2>4
<1> HIDE DEF bound
<1>5. ASSUME NEW e \in all, NEW f \in all, RangeOf(e) = RangeOf(f),
             e.kind = "person", f.kind = "person"
      PROVE  e = f
      BY <1>1, <1>5 DEF ReadAll, OnePerson
<1> QED BY <1>2, <1>3, <1>4, <1>5 DEF ReadAll, OnePerson

\* What the validation accepts.
LEMMA PlansRead ==
    ASSUME NEW text, Len(text) \in Nat, NEW registry, Rows(registry), NEW resolutions,
           NEW plan \in Plans(text, registry, resolutions)
    PROVE  /\ plan.entities \subseteq EntityType /\ plan.edits \subseteq RangeType
           /\ ReadAll(text, plan.entities)
<1>1. PICK L \in Labels(text, registry) :
          /\ plan.entities = Entities(text, L, registry)
          /\ plan.edits = Edits(plan.entities, resolutions)
      BY DEF Plans
<1>2. ReadAll(text, plan.entities)
      BY <1>1, EntitiesRead
<1>3. plan.entities \subseteq EntityType
      BY <1>2 DEF ReadAll, Read
<1>4. plan.edits \subseteq RangeType
      BY <1>1, <1>3 DEF Edits, RangeOf, EntityType, RangeType
<1> QED BY <1>2, <1>3, <1>4

\* What a worker takes from a pass, be it saved, new or joined with what it has.
LEMMA PassesRead ==
    ASSUME NEW text, Len(text) \in Nat, NEW w, Rows(w.people), w.revision \in Nat, w.round \in Nat,
           w.round > 0 => PlanOf(text, w.plans[w.at]),
           w.saved[w.at] # None => PlanOf(text, w.saved[w.at]),
           NEW pass \in Passes(w, text)
    PROVE  PlanOf(text, pass) /\ pass.revision = w.revision
<1> DEFINE new == {[entities |-> p.entities, edits |-> p.edits, revision |-> w.revision] :
                      p \in Plans(text, w.people, w.resolutions[w.at])}
<1>1. ASSUME NEW p \in new
      PROVE  PlanOf(text, p) /\ p.revision = w.revision
      BY PlansRead DEF PlanOf, PlanType
<1> HIDE DEF new
<1>2. CASE w.round > 0
  <2> DEFINE previous == w.plans[w.at]
  <2>1. PICK p \in new : pass = Merged(previous, p)
        BY <1>2 DEF Passes, new
  <2>2. PlanOf(text, p) /\ PlanOf(text, previous) /\ p.revision = w.revision
        BY <1>1, <1>2
  <2> DEFINE older == {e \in previous.entities :
                          RangeOf(e) \notin {RangeOf(f) : f \in p.entities}}
  <2> HIDE DEF previous
  <2>3. pass = [p EXCEPT !.entities = @ \cup older, !.edits = @ \cup previous.edits]
        BY <2>1 DEF Merged
  <2>4. pass \in PlanType /\ pass.entities = p.entities \cup older /\ pass.revision = p.revision
        BY <2>2, <2>3 DEF PlanOf, PlanType
  <2>5. ReadAll(text, p.entities \cup older)
        BY <2>2 DEF PlanOf, ReadAll, OnePerson
  <2> QED BY <2>2, <2>4, <2>5 DEF PlanOf
<1>3. CASE ~(w.round > 0) /\ Reusable(w.saved[w.at], w)
      BY <1>3 DEF Passes, Reusable
<1>4. CASE ~(w.round > 0) /\ ~Reusable(w.saved[w.at], w)
      BY <1>1, <1>4 DEF Passes, new
<1> QED BY <1>2, <1>3, <1>4

-----------------------------------------------------------------------------
(* The registry. *)

\* What is found is a name with the identifier hinted for it.
Hinted(found) == \A f \in found : f.hint \in Name /\ f.words \in Name

\* Those found are added, and nobody is changed.
Files(registry, found, later) ==
    /\ Rows(later)
    /\ DOMAIN later = DOMAIN registry \cup {Proposed[f.hint] : f \in found}
    /\ \A p \in DOMAIN registry : later[p] = registry[p]
    /\ \A p \in DOMAIN later \ DOMAIN registry :
           \E f \in found : Proposed[f.hint] = p /\ later[p].display_name = f.words

\* That is what filing them does.
LEMMA Filed ==
    ASSUME NEW registry, Rows(registry), NEW found, Hinted(found)
    PROVE  Files(registry, found, WithPeople(registry, found))
<1> DEFINE later == WithPeople(registry, found)
           of(p) == CHOOSE f \in found : Proposed[f.hint] = p
<1>1. /\ DOMAIN later = DOMAIN registry \cup {Proposed[f.hint] : f \in found}
      /\ \A p \in DOMAIN registry : later[p] = registry[p]
      /\ \A p \in DOMAIN later \ DOMAIN registry :
             later[p] = [display_name |-> of(p).words, contacts |-> {}]
      BY DEF WithPeople
<1>2. \A f \in found : Proposed[f.hint] \in Identifier
      BY TextAssumption DEF Hinted
<1>3. \A p \in DOMAIN later \ DOMAIN registry : of(p) \in found /\ Proposed[of(p).hint] = p
      BY <1>1
<1> HIDE DEF later, of
<1>4. ASSUME NEW p \in DOMAIN later \ DOMAIN registry
      PROVE  later[p] \in PersonRow /\ later[p].display_name = of(p).words
  <2>1. of(p).words \in Name
        BY <1>3 DEF Hinted
  <2>2. later[p] = [display_name |-> of(p).words, contacts |-> {}]
        BY <1>1
  <2> QED BY <2>1, <2>2 DEF PersonRow
<1>5. Rows(later)
      BY <1>1, <1>2, <1>4 DEF Rows
<1>6. Files(registry, found, later)
      BY <1>1, <1>3, <1>4, <1>5 DEF Files
<1> QED BY <1>6 DEF later

\* Only the person registered under a name has it.
Alone(registry, p) == CalledBy(registry, registry[p].display_name) = {p}

\* A name is never a contact: who is alone with it as a name is alone with it.
LEMMA Namesakes ==
    ASSUME NEW registry, Rows(registry), NEW p \in DOMAIN registry,
           \A q \in DOMAIN registry :
               registry[q].display_name = registry[p].display_name => q = p
    PROVE  Alone(registry, p)
<1>1. \A q \in DOMAIN registry :
          /\ registry[q].contacts \subseteq Contact
          /\ registry[p].display_name \in Name
      BY DEF Rows, PersonRow
<1>2. \A q \in DOMAIN registry :
          registry[p].display_name \in Aliases(registry[q]) <=> q = p
      BY <1>1, TextAssumption DEF Aliases
<1> QED BY <1>2 DEF Alone, CalledBy

\* Registering the proposals of a plan: the plan stays a plan of its text, and whoever is
\* added is alone with the name.
LEMMA RegisteredAlone ==
    ASSUME NEW text, NEW plan, PlanOf(text, plan), NEW registry, Rows(registry)
    PROVE  LET result == Registered(text, plan, registry)
           IN  /\ PlanOf(text, result.plan) /\ result.plan.revision = plan.revision
               /\ Rows(result.people)
               /\ \A p \in DOMAIN result.people \ DOMAIN registry : Alone(result.people, p)
<1> DEFINE proposed == {Words(text, e) : e \in {f \in plan.entities : IsProposal(f)}}
           full     == {w \in proposed : IsFull(w)}
           fullOf(w) == {f \in full : w \in References(f)}
           hint     == [w \in proposed |->
                           IF ~IsFull(w) /\ Cardinality(fullOf(w)) = 1 THEN The(fullOf(w)) ELSE w]
           found(W) == {[hint |-> hint[w], words |-> w] : w \in W}
           first    == {w \in full : CalledBy(registry, w) = {}}
           named    == WithPeople(registry, found(first))
           second   == {w \in proposed : Named(named, w) = {}}
           all      == WithPeople(named, found(second))
           identity(w) == CASE Named(named, w) = {} -> Proposed[hint[w]]
                            [] Cardinality(Named(named, w)) = 1 -> The(Named(named, w))
                            [] OTHER -> hint[w]
           bind(e)  == IF IsProposal(e) THEN [e EXCEPT !.hint = identity(Words(text, e))] ELSE e
           entities == {bind(e) : e \in plan.entities}
           contacts(p) == {Words(text, e) : e \in {f \in entities : f.kind = "contact" /\ f.hint = p}}
           later    == [p \in DOMAIN all |-> [all[p] EXCEPT !.contacts = @ \cup contacts(p)]]
           result   == Registered(text, plan, registry)
<1>1. result.plan = [plan EXCEPT !.entities = entities] /\ result.people = later
      BY DEF Registered
<1>2. /\ plan \in PlanType /\ \A e \in plan.entities : Read(text, e)
      /\ OnePerson(plan.entities)
      BY DEF PlanOf, ReadAll
<1>3. proposed \subseteq Name
      BY <1>2 DEF IsProposal, Read
<1>4. ASSUME NEW w \in proposed
      PROVE  hint[w] \in Name /\ (IsFull(w) => hint[w] = w)
  <2>1. Cardinality(fullOf(w)) = 1 => The(fullOf(w)) \in full
        BY TheOne
  <2> HIDE DEF fullOf
  <2> QED BY <1>3, <2>1
<1> HIDE DEF hint, proposed
<1>5. first \subseteq proposed /\ second \subseteq proposed
      OBVIOUS
<1>6. \A w \in proposed : [hint |-> hint[w], words |-> w].hint \in Name
                          /\ [hint |-> hint[w], words |-> w].words \in Name
      BY <1>3, <1>4
<1>7. /\ \A f \in found(first) : f.hint \in Name /\ f.words \in Name
      /\ \A f \in found(second) : f.hint \in Name /\ f.words \in Name
      BY <1>5, <1>6
<1>8. /\ Rows(named)
      /\ DOMAIN registry \subseteq DOMAIN named
      /\ \A p \in DOMAIN registry : named[p] = registry[p]
      /\ \A p \in DOMAIN named \ DOMAIN registry :
             \E w \in first : Proposed[hint[w]] = p /\ named[p].display_name = w
  <2> DEFINE F == found(first)
  <2>1. Hinted(F)
        BY <1>7 DEF Hinted
  <2>2. \A f \in F : \E w \in first : f.hint = hint[w] /\ f.words = w
        OBVIOUS
  <2>3. named = WithPeople(registry, F)
        OBVIOUS
  <2> HIDE DEF F, first, named
  <2>5. Files(registry, F, WithPeople(registry, F))
        BY <2>1, Filed
  <2> QED BY <2>2, <2>3, <2>5 DEF Files
<1>9. /\ Rows(all)
      /\ DOMAIN named \subseteq DOMAIN all
      /\ \A p \in DOMAIN named : all[p] = named[p]
      /\ \A p \in DOMAIN all \ DOMAIN named :
             \E w \in second : Proposed[hint[w]] = p /\ all[p].display_name = w
  <2> DEFINE F == found(second)
  <2>1. Hinted(F)
        BY <1>7 DEF Hinted
  <2>2. \A f \in F : \E w \in second : f.hint = hint[w] /\ f.words = w
        OBVIOUS
  <2>3. all = WithPeople(named, F)
        OBVIOUS
  <2>4. Rows(named)
        BY <1>8
  <2> HIDE DEF F, second, all, named
  <2>5. Files(named, F, WithPeople(named, F))
        BY <2>1, <2>4, Filed
  <2> QED BY <2>2, <2>3, <2>5 DEF Files
<1>10. \A w \in second : CalledBy(named, w) = {}
       BY DEF Named
<1>11. \A w \in first : IsFull(w) /\ hint[w] = w /\ CalledBy(registry, w) = {}
       BY <1>4, <1>5
<1>12. ASSUME NEW e \in plan.entities
       PROVE  /\ Read(text, bind(e)) /\ bind(e).kind = e.kind /\ RangeOf(bind(e)) = RangeOf(e)
  <2>1. e \in EntityType /\ Read(text, e)
        BY <1>2 DEF Read
  <2>2. CASE IsProposal(e)
    <3> DEFINE w == Words(text, e)
    <3>1. w \in proposed
          BY <2>2 DEF proposed
    <3>2. Proposed[hint[w]] \in Identifier /\ hint[w] \in Name
          BY <1>4, <3>1, TextAssumption
    <3>3. Named(named, w) \subseteq DOMAIN named
          BY DEF Named, CalledBy, ReferredBy
    <3>4. Cardinality(Named(named, w)) = 1 => The(Named(named, w)) \in Identifier
          BY <1>8, <3>3, TheOne DEF Rows
    <3> HIDE DEF w
    <3>5. identity(w) \in Hint
          BY <3>2, <3>4 DEF Hint
    <3>6. bind(e) = [e EXCEPT !.hint = identity(w)]
          BY <2>2 DEF w
    <3> HIDE DEF identity, bind
    <3>7. /\ bind(e) \in EntityType /\ bind(e).kind = e.kind
          /\ bind(e).start = e.start /\ bind(e).end = e.end
          BY <2>1, <3>5, <3>6 DEF EntityType
    <3> QED BY <2>1, <3>7 DEF Read, Words, RangeOf
  <2>3. CASE ~IsProposal(e)
        BY <2>1, <2>3
  <2> QED BY <2>2, <2>3
<1> HIDE DEF identity
<1>13. PlanOf(text, result.plan) /\ result.plan.revision = plan.revision
  <2> HIDE DEF bind
  <2>1. (\A e \in entities : Read(text, e)) /\ OnePerson(entities)
        BY <1>2, <1>12 DEF OnePerson
  <2>2. entities \subseteq EntityType
        BY <2>1 DEF Read
  <2> HIDE DEF entities
  <2> QED BY <1>1, <1>2, <2>1, <2>2 DEF PlanOf, PlanType, ReadAll
<1>14. \A p : contacts(p) \subseteq Contact
  <2> HIDE DEF bind
  <2>1. \A e \in entities : e.kind = "contact" => Words(text, e) \in Contact
        BY <1>12 DEF Read
  <2> HIDE DEF entities
  <2> QED BY <2>1
<1> HIDE DEF contacts, entities, bind
<1>15. /\ DOMAIN later = DOMAIN all
       /\ \A p \in DOMAIN all : later[p] \in PersonRow
                                /\ later[p].display_name = all[p].display_name
  <2> HIDE DEF all
  <2>1. ASSUME NEW p \in DOMAIN all
        PROVE  later[p] \in PersonRow /\ later[p].display_name = all[p].display_name
    <3>1. all[p] \in PersonRow
          BY <1>9 DEF Rows
    <3>2. later[p] = [all[p] EXCEPT !.contacts = @ \cup contacts(p)]
          OBVIOUS
    <3> QED BY <1>14, <3>1, <3>2 DEF PersonRow
  <2> QED BY <2>1
<1> HIDE DEF later, all
<1>16. Rows(later)
       BY <1>9, <1>15 DEF Rows
<1> HIDE DEF named, first, second
<1>17. ASSUME NEW p \in DOMAIN later \ DOMAIN registry, NEW q \in DOMAIN later,
              later[q].display_name = later[p].display_name
       PROVE  q = p
  <2> DEFINE name == later[p].display_name
  <2>1. all[p].display_name = name /\ all[q].display_name = name
        BY <1>15, <1>17
  <2> HIDE DEF name
  <2>2. \A r \in DOMAIN named : named[r].display_name = name => r \in CalledBy(named, name)
        BY DEF CalledBy, Aliases
  <2>3. \A r \in DOMAIN registry :
            registry[r].display_name = name => r \in CalledBy(registry, name)
        BY DEF CalledBy, Aliases
  <2>4. CASE p \notin DOMAIN named
    <3>1. PICK w \in second : Proposed[hint[w]] = p /\ all[p].display_name = w
          BY <1>9, <1>15, <2>4
    <3>2. q \notin DOMAIN named
          BY <1>9, <1>10, <2>1, <2>2, <3>1
    <3>3. PICK v \in second : Proposed[hint[v]] = q /\ all[q].display_name = v
          BY <1>9, <1>15, <3>2
    <3> QED BY <2>1, <3>1, <3>3
  <2>5. CASE p \in DOMAIN named
    <3>1. PICK w \in first : Proposed[hint[w]] = p /\ named[p].display_name = w
          BY <1>8, <2>5
    <3>2. w = name
          BY <1>9, <2>1, <2>5, <3>1
    <3>3. q \in DOMAIN named
          BY <1>9, <1>10, <1>15, <2>1, <2>2, <2>5, <3>1, <3>2
    <3>4. q \notin DOMAIN registry
          BY <1>8, <1>9, <1>11, <2>1, <2>3, <3>1, <3>2, <3>3
    <3>5. PICK v \in first : Proposed[hint[v]] = q /\ named[q].display_name = v
          BY <1>8, <3>3, <3>4
    <3> QED BY <1>9, <2>1, <3>1, <3>2, <3>3, <3>5
  <2> QED BY <2>4, <2>5
<1>18. \A p \in DOMAIN later \ DOMAIN registry : Alone(later, p)
       BY <1>16, <1>17, Namesakes
<1> QED BY <1>1, <1>13, <1>16, <1>18

-----------------------------------------------------------------------------
(* The invariant. *)

\* The text of a record of an upload.
TextOf(j, i) == Text[RecordsOf[j][i]]

\* What a worker has planned so far.
PlansOf(j, plans, generation) ==
    /\ plans \in Seq(PlanType)
    /\ Len(plans) <= Len(RecordsOf[j])
    /\ \A i \in 1..Len(plans) :
           PlanOf(TextOf(j, i), plans[i]) /\ plans[i].revision \in 1..generation

\* What a worker remembers while it looks and plans.
Field ==
    {"phase", "round", "at", "created", "saved", "resolutions", "plans", "people",
     "revision", "began"}

\* A worker that looks or plans: in the first round it adds a plan, in later ones it
\* replaces one.
Planning(j, w, generation) ==
    /\ w = [field \in Field |-> w[field]]
    /\ w.phase \in {"look", "plan"}
    /\ w.round \in Nat
    /\ w.at \in 1..Len(RecordsOf[j])
    /\ PlansOf(j, w.plans, generation)
    /\ Len(w.plans) = IF w.round = 0 THEN w.at - 1 ELSE Len(RecordsOf[j])
    /\ \A i \in 1..Len(RecordsOf[j]) :
           w.saved[i] # None => PlanOf(TextOf(j, i), w.saved[i])
    /\ w.phase = "plan" => Rows(w.people) /\ w.revision \in 1..generation

\* A worker that persists has a plan for every record.
Persisting(j, w, generation) ==
    /\ w.phase = "persist"
    /\ PlansOf(j, w.plans, generation)
    /\ Len(w.plans) = Len(RecordsOf[j])

\* What a worker remembers, in each phase.
Keeps(j, w, generation) ==
    \/ w = Idle
    \/ w = [phase |-> "apply"]
    \/ Planning(j, w, generation)
    \/ Persisting(j, w, generation)

\* All of them.
Workers ==
    /\ DOMAIN worker = Upload
    /\ \A j \in Upload : Keeps(j, worker[j], privacy_generation)

\* A plan that is saved for a record.
SavedFor(r, plan, generation) ==
    plan # None => PlanRow(plan) /\ ReadAll(Text[r], plan.entities)
                   /\ plan.revision \in 1..generation

\* What the database holds.
Stored ==
    /\ Rows(people)
    /\ privacy_generation \in 1..MaxGeneration
    /\ \A r \in Record : SavedFor(r, privacy_plans[r], privacy_generation)
    /\ privacy_diagnostics \subseteq DiagnosticRow
    /\ job \in [Upload -> {"running", "failed", "privacy_ready"}]
    /\ restarts \in 0..MaxRestarts

\* The inductive invariant.
PrivacyInv == Stored /\ Workers /\ UnresolvedExplained

\* The records of an upload and their texts.
LEMMA Uploaded ==
    ASSUME NEW j \in Upload
    PROVE  /\ RecordsOf[j] \in Seq(Record) /\ Len(RecordsOf[j]) \in Nat
           /\ Len(RecordsOf[j]) >= 1
           /\ DOMAIN RecordsOf[j] = 1..Len(RecordsOf[j])
           /\ \A i \in 1..Len(RecordsOf[j]) :
                  RecordsOf[j][i] \in Record /\ Len(TextOf(j, i)) \in Nat
<1>1. RecordsOf[j] \in Seq(Record) /\ RecordsOf[j] # <<>>
      BY PrivacyAssumption
<1>2. /\ Len(RecordsOf[j]) \in Nat /\ DOMAIN RecordsOf[j] = 1..Len(RecordsOf[j])
      /\ \A i \in 1..Len(RecordsOf[j]) : RecordsOf[j][i] \in Record
      BY <1>1, LenProperties, ElementOfSeq
<1>3. Len(RecordsOf[j]) # 0
      BY <1>1, EmptySeq
<1>4. \A r \in Record : Len(Text[r]) \in Nat
      BY PrivacyAssumption, LenProperties
<1> QED BY <1>1, <1>2, <1>3, <1>4 DEF TextOf

\* The types follow from the invariant.
LEMMA InvTyped ==
    ASSUME PrivacyInv
    PROVE  PrivacyTypeOK
<1>1. ASSUME NEW j \in Upload
      PROVE  /\ worker[j].phase \in {"idle", "look", "plan", "persist", "apply"}
             /\ worker[j].phase \in {"look", "plan", "persist"} =>
                    \A i \in DOMAIN worker[j].plans : PlanRow(worker[j].plans[i])
  <2> DEFINE w == worker[j]
  <2>1. Keeps(j, w, privacy_generation)
        BY DEF PrivacyInv, Workers
  <2> HIDE DEF w
  <2>2. ASSUME PlansOf(j, w.plans, privacy_generation)
        PROVE  \A i \in DOMAIN w.plans : PlanRow(w.plans[i])
        BY <2>2, LenProperties DEF PlansOf, PlanOf, PlanType, PlanRow
  <2>3. CASE w = Idle \/ w = [phase |-> "apply"]
        BY <2>3 DEF Idle, w
  <2>4. CASE Planning(j, w, privacy_generation)
    <3>1. w.phase \in {"look", "plan"} /\ PlansOf(j, w.plans, privacy_generation)
          BY <2>4 DEF Planning
    <3> QED BY <2>2, <3>1 DEF w
  <2>5. CASE Persisting(j, w, privacy_generation)
        BY <2>2, <2>5 DEF Persisting, w
  <2> QED BY <2>1, <2>3, <2>4, <2>5 DEF Keeps
<1>2. \A r \in Record : privacy_plans[r] # None =>
          PlanRow(privacy_plans[r]) /\ privacy_plans[r].revision \in 1..privacy_generation
      BY DEF PrivacyInv, Stored, SavedFor
<1> QED BY <1>1, <1>2 DEF PrivacyInv, Stored, Rows, PrivacyTypeOK

\* A later generation changes nothing for what is kept.
LEMMA Later ==
    ASSUME NEW j \in Upload, NEW w, NEW g \in Nat, NEW h \in Nat, g <= h, Keeps(j, w, g)
    PROVE  Keeps(j, w, h)
<1>1. 1..g \subseteq 1..h
      OBVIOUS
<1>2. ASSUME NEW plans, PlansOf(j, plans, g)
      PROVE  PlansOf(j, plans, h)
      BY <1>1, <1>2 DEF PlansOf
<1>3. CASE Planning(j, w, g)
  <2>1. Planning(j, w, h)
        BY <1>1, <1>2, <1>3 DEF Planning
  <2> QED BY <2>1 DEF Keeps
<1>4. CASE Persisting(j, w, g)
      BY <1>2, <1>4 DEF Persisting, Keeps
<1> QED BY <1>3, <1>4 DEF Keeps

-----------------------------------------------------------------------------
(* The steps of a worker. *)

\* A step that saves nothing.
LEMMA StoredStays ==
    ASSUME Stored, UnresolvedExplained,
           UNCHANGED <<privacy_generation, privacy_plans, privacy_diagnostics>>,
           Rows(people'),
           job' \in [Upload -> {"running", "failed", "privacy_ready"}],
           restarts' \in 0..MaxRestarts
    PROVE  Stored' /\ UnresolvedExplained'
BY DEF Stored, UnresolvedExplained

\* A step of one worker, in whatever generation it ends.
LEMMA OneMoves ==
    ASSUME Workers, NEW j \in Upload, NEW v, worker' = [worker EXCEPT ![j] = v],
           privacy_generation \in Nat, privacy_generation' = privacy_generation,
           Keeps(j, v, privacy_generation)
    PROVE  Workers'
<1>1. DOMAIN worker' = Upload
      BY DEF Workers
<1>2. ASSUME NEW k \in Upload
      PROVE  Keeps(k, worker'[k], privacy_generation)
  <2>1. CASE k = j
        BY <2>1 DEF Workers
  <2>2. CASE k # j
        BY <2>2 DEF Workers
  <2> QED BY <2>1, <2>2
<1> QED BY <1>1, <1>2 DEF Workers

\* What is taken from the stored plans.
LEMMA SavedPlan ==
    ASSUME NEW r \in Record, SavedFor(r, privacy_plans[r], privacy_generation),
           privacy_generation \in Nat, Saved(r) # None
    PROVE  PlanOf(Text[r], Saved(r))
<1>1. /\ privacy_plans[r] # None
      /\ Saved(r) = [entities |-> privacy_plans[r].entities, edits |-> privacy_plans[r].edits,
                     revision |-> privacy_plans[r].revision]
      BY DEF Saved
<1>2. /\ privacy_plans[r].entities \in SUBSET EntityType
      /\ privacy_plans[r].edits \in SUBSET RangeType
      /\ privacy_plans[r].revision \in Nat
      /\ ReadAll(Text[r], privacy_plans[r].entities)
      BY <1>1 DEF SavedFor, PlanRow
<1> QED BY <1>1, <1>2 DEF PlanOf, PlanType

\* What a worker takes from the stored plans are plans of the texts of its records.
LEMMA ReadPrivateKeeps ==
    ASSUME PrivacyInv, NEW j \in Upload, ReadPrivate(j)
    PROVE  PrivacyInv'
<1> DEFINE v == [phase |-> "look", round |-> 0, at |-> 1, created |-> FALSE,
                 saved |-> [i \in DOMAIN RecordsOf[j] |-> Saved(RecordsOf[j][i])],
                 resolutions |-> [i \in DOMAIN RecordsOf[j] |-> Of(RecordsOf[j][i])],
                 plans |-> <<>>, people |-> <<>>, revision |-> 0, began |-> DOMAIN people]
<1>1. worker' = [worker EXCEPT ![j] = v]
      BY DEF ReadPrivate
<1>2. privacy_generation \in Nat /\ privacy_generation' = privacy_generation
      BY PrivacyAssumption DEF PrivacyInv, Stored, ReadPrivate, registryVars
<1>3. \A i \in 1..Len(RecordsOf[j]) : v.saved[i] # None => PlanOf(TextOf(j, i), v.saved[i])
  <2> SUFFICES ASSUME NEW i \in 1..Len(RecordsOf[j]), v.saved[i] # None
               PROVE  PlanOf(TextOf(j, i), v.saved[i])
      OBVIOUS
  <2>1. v.saved[i] = Saved(RecordsOf[j][i]) /\ RecordsOf[j][i] \in Record
        BY Uploaded
  <2> QED BY <1>2, <2>1, SavedPlan DEF PrivacyInv, Stored, TextOf
<1>4. PlansOf(j, <<>>, privacy_generation) /\ Len(<<>>) = 0
  <2>1. <<>> \in Seq(PlanType) /\ Len(<<>>) = 0
        BY EmptySeq
  <2> QED BY <2>1, Uploaded DEF PlansOf
<1>5. /\ v.phase = "look" /\ v.round = 0 /\ v.at = 1 /\ v.plans = <<>>
      /\ v = [field \in Field |-> v[field]]
  <2>1. v.phase = "look" /\ v.round = 0 /\ v.at = 1 /\ v.plans = <<>>
        OBVIOUS
  <2>2. DOMAIN v = Field
        BY DEF Field
  <2>3. v = [field \in DOMAIN v |-> v[field]]
        OBVIOUS
  <2> HIDE DEF v
  <2>4. v = [field \in Field |-> v[field]]
        BY <2>2, <2>3
  <2> QED BY <2>1, <2>4
<1> HIDE DEF v
<1>6. Planning(j, v, privacy_generation)
  <2>1. Len(RecordsOf[j]) \in Nat /\ Len(RecordsOf[j]) >= 1
        BY Uploaded
  <2>2. v.round = 0 /\ v.at \in 1..Len(RecordsOf[j]) /\ v.phase = "look"
        BY <1>5, <2>1
  <2>3. PlansOf(j, v.plans, privacy_generation) /\ Len(v.plans) = v.at - 1
        BY <1>4, <1>5
  <2>4. v = [field \in Field |-> v[field]]
        BY <1>5
  <2>5. /\ v.phase \in {"look", "plan"} /\ v.phase # "plan"
        /\ v.round \in Nat /\ v.at \in 1..Len(RecordsOf[j])
        BY <2>2
  <2>6. Len(v.plans) = IF v.round = 0 THEN v.at - 1 ELSE Len(RecordsOf[j])
        BY <2>2, <2>3
  <2> QED BY <1>3, <2>3, <2>4, <2>5, <2>6 DEF Planning
<1>7. Workers'
      BY <1>1, <1>2, <1>6, OneMoves DEF Keeps, PrivacyInv
<1>8. Stored' /\ UnresolvedExplained'
  <2>1. UNCHANGED <<people, privacy_generation, privacy_plans, privacy_diagnostics, job, restarts>>
        BY DEF ReadPrivate, registryVars, reviewVars
  <2>2. Rows(people')
        BY <2>1 DEF PrivacyInv, Stored
  <2> QED BY <2>1, <2>2, StoredStays DEF PrivacyInv, Stored
<1> QED BY <1>7, <1>8 DEF PrivacyInv

\* A worker remembers the registry and its generation.
LEMMA LookKeeps ==
    ASSUME PrivacyInv, NEW j \in Upload, Look(j)
    PROVE  PrivacyInv'
<1> DEFINE w == worker[j]
           v == [w EXCEPT !.phase = "plan", !.people = people, !.revision = privacy_generation]
<1>1. w.phase = "look" /\ Keeps(j, w, privacy_generation)
      BY DEF Look, PrivacyInv, Workers
<1>2. worker' = [worker EXCEPT ![j] = v]
  <2>1. worker' = [worker EXCEPT ![j].phase = "plan", ![j].people = people,
                                 ![j].revision = privacy_generation]
        BY DEF Look
  <2> QED BY <2>1
<1>3. /\ privacy_generation \in Nat /\ privacy_generation' = privacy_generation
      /\ privacy_generation \in 1..privacy_generation /\ Rows(people)
      BY PrivacyAssumption DEF PrivacyInv, Stored, Look, registryVars
<1> HIDE DEF w
<1>4. Planning(j, w, privacy_generation)
      BY <1>1 DEF Keeps, Idle, Persisting
<1>5. /\ v = [field \in Field |-> v[field]]
      /\ v.phase = "plan" /\ v.people = people /\ v.revision = privacy_generation
      /\ v.round = w.round /\ v.at = w.at /\ v.saved = w.saved /\ v.plans = w.plans
  <2>1. w = [field \in Field |-> w[field]]
        BY <1>4 DEF Planning
  <2> QED BY <2>1 DEF Field
<1> HIDE DEF v
<1>6. Planning(j, v, privacy_generation)
      BY <1>3, <1>4, <1>5 DEF Planning
<1>7. Workers'
      BY <1>2, <1>3, <1>6, OneMoves DEF Keeps, PrivacyInv
<1>8. Stored' /\ UnresolvedExplained'
  <2>1. UNCHANGED <<people, privacy_generation, privacy_plans, privacy_diagnostics, job, restarts>>
        BY DEF Look, registryVars, reviewVars
  <2>2. Rows(people')
        BY <2>1 DEF PrivacyInv, Stored
  <2> QED BY <2>1, <2>2, StoredStays DEF PrivacyInv, Stored
<1> QED BY <1>7, <1>8 DEF PrivacyInv

\* The plans of a worker that has planned a record, the first time or again.
Planned(w, plan) ==
    IF w.round = 0 THEN Append(w.plans, plan) ELSE [w.plans EXCEPT ![w.at] = plan]

\* They are plans of the records, one more in the first round.
LEMMA PlansGrow ==
    ASSUME NEW j \in Upload, NEW w, NEW generation \in Nat, Planning(j, w, generation),
           NEW plan, PlanOf(TextOf(j, w.at), plan), plan.revision \in 1..generation
    PROVE  /\ PlansOf(j, Planned(w, plan), generation)
           /\ Len(Planned(w, plan)) = IF w.round = 0 THEN w.at ELSE Len(RecordsOf[j])
<1> DEFINE plans == Planned(w, plan)
<1>0. plans = IF w.round = 0 THEN Append(w.plans, plan) ELSE [w.plans EXCEPT ![w.at] = plan]
      BY DEF Planned
<1> SUFFICES /\ PlansOf(j, plans, generation)
             /\ Len(plans) = IF w.round = 0 THEN w.at ELSE Len(RecordsOf[j])
    OBVIOUS
<1> HIDE DEF plans
<1>1. /\ w.plans \in Seq(PlanType) /\ plan \in PlanType
      /\ \A i \in 1..Len(w.plans) :
             PlanOf(TextOf(j, i), w.plans[i]) /\ w.plans[i].revision \in 1..generation
      /\ Len(w.plans) = IF w.round = 0 THEN w.at - 1 ELSE Len(RecordsOf[j])
      /\ w.at \in 1..Len(RecordsOf[j])
      BY DEF Planning, PlansOf, PlanOf
<1>2. Len(RecordsOf[j]) \in Nat
      BY Uploaded
<1>3. CASE w.round = 0
  <2>1. /\ plans \in Seq(PlanType) /\ Len(plans) = Len(w.plans) + 1
        /\ \A i \in 1..Len(w.plans) : plans[i] = w.plans[i]
        /\ plans[Len(w.plans) + 1] = plan
        BY <1>0, <1>1, <1>3, AppendProperties
  <2>2. Len(plans) = w.at /\ w.at <= Len(RecordsOf[j]) /\ Len(w.plans) + 1 = w.at
        BY <1>1, <1>2, <1>3, <2>1
  <2>3. ASSUME NEW i \in 1..Len(plans)
        PROVE  PlanOf(TextOf(j, i), plans[i]) /\ plans[i].revision \in 1..generation
    <3>1. CASE i = w.at
          BY <2>1, <2>2, <3>1
    <3>2. CASE i # w.at
      <4>1. i \in 1..Len(w.plans)
            BY <1>1, <1>2, <2>2, <3>2
      <4> QED BY <1>1, <2>1, <4>1
    <3> QED BY <3>1, <3>2
  <2>4. Len(plans) <= Len(RecordsOf[j])
        BY <2>2
  <2> QED BY <1>3, <2>1, <2>2, <2>3, <2>4 DEF PlansOf
<1>4. CASE w.round # 0
  <2>1. Len(w.plans) = Len(RecordsOf[j])
        BY <1>1, <1>4
  <2>2. plans = [w.plans EXCEPT ![w.at] = plan]
        BY <1>0, <1>4
  <2>3. plans \in Seq(PlanType) /\ Len(plans) = Len(w.plans)
    <3>1. w.plans \in [1..Len(w.plans) -> PlanType] /\ Len(w.plans) \in Nat
          BY <1>1, LenProperties
    <3>2. plans \in [1..Len(w.plans) -> PlanType]
          BY <1>1, <2>2, <3>1
    <3> QED BY <3>1, <3>2
  <2>4. \A i \in 1..Len(w.plans) : plans[i] = IF i = w.at THEN plan ELSE w.plans[i]
    <3>1. DOMAIN w.plans = 1..Len(w.plans)
          BY <1>1, LenProperties
    <3> QED BY <2>2, <3>1
  <2>5. \A i \in 1..Len(plans) :
            PlanOf(TextOf(j, i), plans[i]) /\ plans[i].revision \in 1..generation
        BY <1>1, <2>3, <2>4
  <2> QED BY <1>2, <1>4, <2>1, <2>3, <2>5 DEF PlansOf
<1> QED BY <1>3, <1>4

\* Where a worker goes from a record it has planned.
LEMMA OnwardKeeps ==
    ASSUME NEW j \in Upload, NEW w, NEW generation \in Nat, Planning(j, w, generation),
           NEW plans, PlansOf(j, plans, generation),
           Len(plans) = IF w.round = 0 THEN w.at ELSE Len(RecordsOf[j]),
           NEW created
    PROVE  Keeps(j, Onward(j, [w EXCEPT !.plans = plans, !.created = created]), generation)
<1> DEFINE x == [w EXCEPT !.plans = plans, !.created = created]
           y == [x EXCEPT !.people = <<>>, !.revision = 0]
           n == Len(RecordsOf[j])
<1>1. w = [field \in Field |-> w[field]]
      BY DEF Planning
<1>2. /\ x = [field \in Field |-> x[field]] /\ x.plans = plans
      /\ x.round = w.round /\ x.at = w.at /\ x.saved = w.saved
      BY <1>1 DEF Field
<1> HIDE DEF x
<1>3. /\ y = [field \in Field |-> y[field]] /\ y.plans = plans
      /\ y.round = w.round /\ y.at = w.at /\ y.saved = w.saved
      BY <1>2 DEF Field
<1>4. Onward(j, x) =
          IF y.at < n THEN [y EXCEPT !.phase = "look", !.at = @ + 1]
          ELSE IF Closed(y) THEN [phase |-> "persist", plans |-> y.plans, began |-> y.began]
          ELSE [y EXCEPT !.phase = "look", !.at = 1, !.round = @ + 1, !.created = FALSE]
      BY DEF Onward
<1> HIDE DEF y
<1>5. /\ n \in Nat /\ n >= 1 /\ w.at \in 1..n /\ w.round \in Nat
      /\ \A i \in 1..n : w.saved[i] # None => PlanOf(TextOf(j, i), w.saved[i])
      BY Uploaded DEF Planning
<1>6. CASE y.at < n
  <2> DEFINE z == [y EXCEPT !.phase = "look", !.at = @ + 1]
  <2>1. /\ z = [field \in Field |-> z[field]] /\ z.plans = plans /\ z.phase = "look"
        /\ z.round = w.round /\ z.at = w.at + 1 /\ z.saved = w.saved
        BY <1>3 DEF Field
  <2> HIDE DEF z
  <2>2. z.at \in 1..n /\ z.at - 1 = w.at /\ z.phase # "plan"
        BY <1>3, <1>5, <1>6, <2>1
  <2>3. Planning(j, z, generation)
        BY <1>5, <2>1, <2>2 DEF Planning
  <2> QED BY <1>4, <1>6, <2>3 DEF Keeps, x, z
<1>7. CASE ~(y.at < n) /\ Closed(y)
  <2> DEFINE z == [phase |-> "persist", plans |-> y.plans, began |-> y.began]
  <2>1. z.phase = "persist" /\ z.plans = plans /\ Len(plans) = n
        BY <1>3, <1>5, <1>7 DEF Closed
  <2> HIDE DEF z
  <2>2. Persisting(j, z, generation)
        BY <2>1 DEF Persisting
  <2> QED BY <1>4, <1>7, <2>2 DEF Keeps, x, z
<1>8. CASE ~(y.at < n) /\ ~Closed(y)
  <2> DEFINE z == [y EXCEPT !.phase = "look", !.at = 1, !.round = @ + 1, !.created = FALSE]
  <2>1. /\ z = [field \in Field |-> z[field]] /\ z.plans = plans /\ z.phase = "look"
        /\ z.round = w.round + 1 /\ z.at = 1 /\ z.saved = w.saved
        BY <1>3 DEF Field
  <2> HIDE DEF z
  <2>2. z.at \in 1..n /\ z.round \in Nat /\ z.round # 0 /\ z.phase # "plan" /\ Len(plans) = n
        BY <1>3, <1>5, <1>8, <2>1
  <2>3. Planning(j, z, generation)
        BY <1>5, <2>1, <2>2 DEF Planning
  <2> QED BY <1>4, <1>8, <2>3 DEF Keeps, x, z
<1> QED BY <1>6, <1>7, <1>8

\* What a worker that plans a record knows of it.
LEMMA PlanningRead ==
    ASSUME NEW j \in Upload, NEW w, NEW generation \in Nat, Planning(j, w, generation),
           w.phase = "plan"
    PROVE  /\ w.round \in Nat /\ w.at \in 1..Len(RecordsOf[j])
           /\ Rows(w.people) /\ w.revision \in 1..generation /\ w.revision \in Nat
           /\ w.saved[w.at] # None => PlanOf(TextOf(j, w.at), w.saved[w.at])
           /\ w.round > 0 => PlanOf(TextOf(j, w.at), w.plans[w.at])
<1>1. w.round \in Nat /\ w.at \in 1..Len(RecordsOf[j])
      BY DEF Planning
<1>2. Rows(w.people) /\ w.revision \in 1..generation
      BY DEF Planning
<1>3. w.revision \in Nat
      BY <1>2
<1>4. \A i \in 1..Len(RecordsOf[j]) :
          w.saved[i] # None => PlanOf(TextOf(j, i), w.saved[i])
      BY DEF Planning
<1>5. w.round > 0 => PlanOf(TextOf(j, w.at), w.plans[w.at])
  <2>1. \A i \in 1..Len(w.plans) : PlanOf(TextOf(j, i), w.plans[i])
        BY DEF Planning, PlansOf
  <2>2. w.round # 0 => Len(w.plans) = Len(RecordsOf[j])
        BY DEF Planning
  <2> QED BY <1>1, <2>1, <2>2
<1> QED BY <1>1, <1>2, <1>3, <1>4, <1>5

\* What a worker's step adds to the registry has its name alone.
AddedAlone == \A p \in DOMAIN people' \ DOMAIN people : Alone(people', p)

\* What a worker makes of a pass over a record.
Takes(j, w, text, pass) ==
    LET result  == Registered(text, pass, people)
        created == w.created \/ result.created
    IN  /\ people' = result.people
        /\ worker' = [worker EXCEPT ![j] =
               Onward(j, [w EXCEPT !.plans = Planned(w, result.plan), !.created = created])]

\* A worker that plans a record takes a pass that is a plan of its text.
LEMMA PassTaken ==
    ASSUME PrivacyInv, NEW j \in Upload, PlanRecord(j), NEW w, w = worker[j]
    PROVE  /\ Planning(j, w, privacy_generation) /\ w.phase = "plan"
           /\ \E pass \in Passes(w, TextOf(j, w.at)) :
                  /\ PlanOf(TextOf(j, w.at), pass) /\ pass.revision = w.revision
                  /\ Takes(j, w, TextOf(j, w.at), pass)
<1> DEFINE text == Text[RecordsOf[j][w.at]]
<1>1. PICK pass \in Passes(w, text) :
          LET result == Registered(text, pass, people)
              plans == IF w.round = 0 THEN Append(w.plans, result.plan)
                       ELSE [w.plans EXCEPT ![w.at] = result.plan]
          IN  /\ people' = result.people
              /\ worker' = [worker EXCEPT ![j] =
                     Onward(j, [w EXCEPT !.plans = plans, !.created = @ \/ result.created])]
      BY DEF PlanRecord
<1>2. Takes(j, w, text, pass)
      BY <1>1 DEF Takes, Planned
<1>3. w.phase = "plan" /\ Keeps(j, w, privacy_generation)
      BY DEF PlanRecord, PrivacyInv, Workers
<1>4. privacy_generation \in Nat
      BY PrivacyAssumption DEF PrivacyInv, Stored
<1>5. Planning(j, w, privacy_generation)
      BY <1>3 DEF Keeps, Idle, Persisting
<1>6. /\ w.round \in Nat /\ w.at \in 1..Len(RecordsOf[j])
      /\ Rows(w.people) /\ w.revision \in Nat
      /\ w.saved[w.at] # None => PlanOf(TextOf(j, w.at), w.saved[w.at])
      BY <1>3, <1>4, <1>5, PlanningRead
<1>7. text = TextOf(j, w.at) /\ Len(text) \in Nat
      BY <1>6, Uploaded DEF TextOf
<1>8. w.round > 0 => PlanOf(TextOf(j, w.at), w.plans[w.at])
      BY <1>3, <1>4, <1>5, PlanningRead
<1>9. PlanOf(text, pass) /\ pass.revision = w.revision
  <2> HIDE DEF text
  <2> QED BY <1>6, <1>7, <1>8, PassesRead
<1> QED BY <1>1, <1>2, <1>3, <1>5, <1>7, <1>9

\* A worker plans a record; whoever its proposals add is alone with the name.
LEMMA PlanRecordKeeps ==
    ASSUME PrivacyInv, NEW j \in Upload, PlanRecord(j)
    PROVE  PrivacyInv' /\ AddedAlone
<1> DEFINE w == worker[j]
           text == TextOf(j, w.at)
<1>1. /\ Planning(j, w, privacy_generation) /\ w.phase = "plan"
      /\ \E pass \in Passes(w, text) :
             PlanOf(text, pass) /\ pass.revision = w.revision /\ Takes(j, w, text, pass)
      BY PassTaken
<1>2. PICK pass \in Passes(w, text) :
          PlanOf(text, pass) /\ pass.revision = w.revision /\ Takes(j, w, text, pass)
      BY <1>1
<1> DEFINE result == Registered(text, pass, people)
           plans == Planned(w, result.plan)
           created == w.created \/ result.created
           v == Onward(j, [w EXCEPT !.plans = plans, !.created = created])
<1>3. people' = result.people /\ worker' = [worker EXCEPT ![j] = v]
      BY <1>2 DEF Takes
<1>4. privacy_generation \in Nat /\ privacy_generation' = privacy_generation /\ Rows(people)
      BY PrivacyAssumption DEF PrivacyInv, Stored, PlanRecord
<1> HIDE DEF w
<1>5. w.at \in 1..Len(RecordsOf[j]) /\ w.revision \in 1..privacy_generation /\ Len(text) \in Nat
  <2>1. w.at \in 1..Len(RecordsOf[j]) /\ w.revision \in 1..privacy_generation
        BY <1>1, <1>4, PlanningRead
  <2> QED BY <2>1, Uploaded
<1>6. /\ PlanOf(text, result.plan) /\ result.plan.revision = pass.revision
      /\ Rows(result.people)
      /\ \A p \in DOMAIN result.people \ DOMAIN people : Alone(result.people, p)
  <2> HIDE DEF text
  <2> QED BY <1>2, <1>4, <1>5, RegisteredAlone
<1> HIDE DEF result
<1>7. /\ PlansOf(j, plans, privacy_generation)
      /\ Len(plans) = IF w.round = 0 THEN w.at ELSE Len(RecordsOf[j])
  <2> DEFINE plan == result.plan
  <2>1. plans = Planned(w, plan)
        OBVIOUS
  <2>2. PlanOf(TextOf(j, w.at), plan) /\ plan.revision \in 1..privacy_generation
        BY <1>2, <1>5, <1>6
  <2> HIDE DEF plans, plan
  <2> QED BY <1>1, <1>4, <2>1, <2>2, PlansGrow
<1> HIDE DEF plans, created
<1>8. Keeps(j, v, privacy_generation)
      BY <1>1, <1>4, <1>7, OnwardKeeps
<1> HIDE DEF v
<1>9. Workers'
      BY <1>3, <1>4, <1>8, OneMoves DEF PrivacyInv
<1>10. Stored' /\ UnresolvedExplained'
  <2>1. UNCHANGED <<privacy_generation, privacy_plans, privacy_diagnostics, job, restarts>>
        BY DEF PlanRecord, reviewVars
  <2>2. Rows(people')
        BY <1>3, <1>6
  <2> QED BY <2>1, <2>2, StoredStays DEF PrivacyInv, Stored
<1>11. AddedAlone
       BY <1>3, <1>6 DEF AddedAlone
<1> QED BY <1>9, <1>10, <1>11 DEF PrivacyInv

\* What the first loop of persist finds is alone with its name.
LEMMA AdmittedAlone ==
    ASSUME Rows(people), NEW j \in Upload, NEW plans, NEW generation \in Nat,
           PlansOf(j, plans, generation),
           NEW found \in SUBSET Proposals(j, plans), Admits(found, Proposals(j, plans))
    PROVE  LET later == WithPeople(people, found)
           IN  /\ Rows(later)
               /\ \A p \in DOMAIN later \ DOMAIN people : Alone(later, p)
<1> DEFINE later == WithPeople(people, found)
<1>1. ASSUME NEW f \in Proposals(j, plans)
      PROVE  /\ f.hint \in Name /\ f.words \in Name
             /\ f.at \in 1..Len(plans) /\ f.start \in Nat /\ f.end \in Nat
             /\ \E e \in plans[f.at].entities :
                    /\ e.kind = "person"
                    /\ RangeOf(e) = [start |-> f.start, end |-> f.end]
                    /\ f = [at |-> f.at, start |-> e.start, end |-> e.end, hint |-> e.hint,
                            words |-> Words(TextOf(j, f.at), e)]
  <2>1. DOMAIN plans = 1..Len(plans)
        BY LenProperties DEF PlansOf
  <2>2. PICK i \in 1..Len(plans) :
            f \in {[at |-> i, start |-> e.start, end |-> e.end, hint |-> e.hint,
                    words |-> Words(Text[RecordsOf[j][i]], e)] :
                       e \in {g \in plans[i].entities : IsProposal(g)}}
        BY <2>1 DEF Proposals
  <2>3. PICK e \in plans[i].entities :
            /\ IsProposal(e)
            /\ f = [at |-> i, start |-> e.start, end |-> e.end, hint |-> e.hint,
                    words |-> Words(Text[RecordsOf[j][i]], e)]
        BY <2>2
  <2>4. Read(TextOf(j, i), e)
        BY DEF PlansOf, PlanOf, ReadAll
  <2>5. e.start \in Nat /\ e.end \in Nat /\ e.kind = "person" /\ e.hint \in Name
        /\ Words(TextOf(j, i), e) \in Name
        BY <2>3, <2>4 DEF Read, EntityType, IsProposal
  <2> QED BY <2>3, <2>5 DEF TextOf, RangeOf
<1>2. /\ Rows(later)
      /\ \A p \in DOMAIN people : later[p] = people[p]
      /\ \A p \in DOMAIN later \ DOMAIN people :
             \E f \in found : Proposed[f.hint] = p /\ later[p].display_name = f.words
  <2>1. Hinted(found)
        BY <1>1 DEF Hinted
  <2>2. Files(people, found, WithPeople(people, found))
        BY <2>1, Filed
  <2> QED BY <2>2 DEF Files
<1> HIDE DEF later
<1>3. ASSUME NEW f \in found, NEW g \in found, f.words = g.words,
             Proposed[f.hint] \notin DOMAIN people, Proposed[g.hint] \notin DOMAIN people
      PROVE  f = g
  <2>1. ~Before(f, g) /\ ~Before(g, f)
        BY <1>3 DEF Admits
  <2>2. f.at = g.at /\ f.start = g.start /\ f.end = g.end
    <3>1. /\ f.at \in Nat /\ f.start \in Nat /\ f.end \in Nat
          /\ g.at \in Nat /\ g.start \in Nat /\ g.end \in Nat
          BY <1>1
    <3> QED BY <2>1, <3>1 DEF Before
  <2>3. PICK d \in plans[f.at].entities :
            /\ d.kind = "person"
            /\ RangeOf(d) = [start |-> f.start, end |-> f.end]
            /\ f = [at |-> f.at, start |-> d.start, end |-> d.end, hint |-> d.hint,
                    words |-> Words(TextOf(j, f.at), d)]
        BY <1>1
  <2>4. PICK e \in plans[g.at].entities :
            /\ e.kind = "person"
            /\ RangeOf(e) = [start |-> g.start, end |-> g.end]
            /\ g = [at |-> g.at, start |-> e.start, end |-> e.end, hint |-> e.hint,
                    words |-> Words(TextOf(j, g.at), e)]
        BY <1>1
  <2>5. OnePerson(plans[f.at].entities)
        BY <1>1 DEF PlansOf, PlanOf, ReadAll
  <2>6. d = e
        BY <2>2, <2>3, <2>4, <2>5 DEF OnePerson
  <2> QED BY <2>2, <2>3, <2>4, <2>6
<1>4. ASSUME NEW p \in DOMAIN later \ DOMAIN people, NEW q \in DOMAIN later,
             later[q].display_name = later[p].display_name
      PROVE  q = p
  <2>1. PICK f \in found : Proposed[f.hint] = p /\ later[p].display_name = f.words
        BY <1>2
  <2>2. CalledBy(people, f.words) = {}
        BY DEF Admits
  <2>3. q \notin DOMAIN people
        BY <1>2, <1>4, <2>1, <2>2 DEF CalledBy, Aliases
  <2>4. PICK g \in found : Proposed[g.hint] = q /\ later[q].display_name = g.words
        BY <1>2, <2>3
  <2> QED BY <1>3, <1>4, <2>1, <2>3, <2>4
<1>5. \A p \in DOMAIN later \ DOMAIN people : Alone(later, p)
      BY <1>2, <1>4, Namesakes
<1> QED BY <1>2, <1>5 DEF later


\* The records of an upload.
Mine(j) == {RecordsOf[j][i] : i \in DOMAIN RecordsOf[j]}

\* The plan that is saved for a record is a plan of its text, and whatever leaves it
\* unresolved is asked about.
LEMMA FinalRead ==
    ASSUME NEW j \in Upload, NEW w, w = worker[j], NEW generation \in Nat,
           PlansOf(j, w.plans, generation), Len(w.plans) = Len(RecordsOf[j]),
           NEW r \in Mine(j), NEW found
    PROVE  LET plan == Final(j, r, found)
           IN  /\ SavedFor(r, plan, generation)
               /\ Diagnostics(r, plan) \subseteq DiagnosticRow
               /\ plan.unresolved => \E d \in Diagnostics(r, plan) : d.record = r /\ d.state = "open"
<1> DEFINE i == CHOOSE k \in DOMAIN w.plans : RecordsOf[j][k] = r
           plan == w.plans[i]
           entity(e) == IF IsProposal(e) /\ e.hint \in {f.hint : f \in found}
                        THEN [e EXCEPT !.hint = Proposed[e.hint]] ELSE e
           entities == {entity(e) : e \in plan.entities}
           final == Final(j, r, found)
<1>1. /\ i \in 1..Len(w.plans) /\ RecordsOf[j][i] = r /\ r \in Record
  <2>1. DOMAIN w.plans = DOMAIN RecordsOf[j]
        BY Uploaded, LenProperties DEF PlansOf
  <2>2. PICK k \in DOMAIN w.plans : RecordsOf[j][k] = r
        BY <2>1 DEF Mine
  <2>3. i \in DOMAIN w.plans /\ RecordsOf[j][i] = r
        BY <2>2
  <2> HIDE DEF i
  <2>4. i \in 1..Len(RecordsOf[j])
        BY <2>1, <2>3, Uploaded
  <2>5. RecordsOf[j][i] \in Record
        BY <2>4, Uploaded
  <2> QED BY <2>3, <2>4, <2>5
<1>2. /\ final.entities = entities /\ final.edits = plan.edits
      /\ final.revision = plan.revision
      /\ final.unresolved => \E e \in entities : TRUE
      BY DEF Final
<1> HIDE DEF i, final
<1>3. /\ plan \in PlanType /\ plan.revision \in 1..generation
      /\ \A e \in plan.entities : Read(Text[r], e)
      /\ OnePerson(plan.entities)
      BY <1>1 DEF PlansOf, PlanOf, ReadAll, TextOf
<1> HIDE DEF plan
<1>4. ASSUME NEW e \in plan.entities
      PROVE  /\ Read(Text[r], entity(e)) /\ entity(e).kind = e.kind
             /\ RangeOf(entity(e)) = RangeOf(e)
  <2>1. e \in EntityType /\ Read(Text[r], e)
        BY <1>3 DEF Read
  <2>2. CASE entity(e) = [e EXCEPT !.hint = Proposed[e.hint]] /\ IsProposal(e)
    <3> DEFINE hint == Proposed[e.hint]
               f == entity(e)
    <3>1. hint \in Hint
          BY <2>2, TextAssumption DEF IsProposal, Hint
    <3>2. f = [e EXCEPT !.hint = hint]
          BY <2>2
    <3> HIDE DEF hint, f
    <3>3. f \in EntityType /\ f.kind = e.kind /\ f.start = e.start /\ f.end = e.end
          BY <2>1, <3>1, <3>2 DEF EntityType
    <3>4. Read(Text[r], f) /\ RangeOf(f) = RangeOf(e)
          BY <2>1, <3>3 DEF Read, Words, RangeOf
    <3> QED BY <3>3, <3>4 DEF f
  <2>3. CASE entity(e) = e
        BY <2>1, <2>3
  <2> QED BY <2>2, <2>3
<1> HIDE DEF entity
<1>5. ReadAll(Text[r], entities)
      BY <1>3, <1>4 DEF ReadAll, OnePerson
<1> HIDE DEF entities
<1>6. \A e \in entities : e \in EntityType
      BY <1>5 DEF ReadAll, Read
<1>7. SavedFor(r, final, generation)
      BY <1>2, <1>3, <1>5, <1>6 DEF SavedFor, PlanRow, PlanType
<1>8. Diagnostics(r, final) =
          IF ~final.unresolved THEN {}
          ELSE {[record |-> r, start |-> e.start, end |-> e.end, kind |-> e.kind,
                 state |-> "open"] : e \in entities}
      BY <1>2 DEF Diagnostics
<1>9. \A e \in entities :
          [record |-> r, start |-> e.start, end |-> e.end, kind |-> e.kind, state |-> "open"]
              \in DiagnosticRow
      BY <1>1, <1>6 DEF EntityType, DiagnosticRow
<1>10. Diagnostics(r, final) \subseteq DiagnosticRow
       BY <1>8, <1>9
<1>11. final.unresolved => \E d \in Diagnostics(r, final) : d.record = r /\ d.state = "open"
  <2> SUFFICES ASSUME final.unresolved
               PROVE  \E d \in Diagnostics(r, final) : d.record = r /\ d.state = "open"
      OBVIOUS
  <2>1. PICK e \in entities : TRUE
        BY <1>2
  <2> DEFINE d == [record |-> r, start |-> e.start, end |-> e.end, kind |-> e.kind,
                   state |-> "open"]
  <2>2. d \in Diagnostics(r, final)
        BY <1>8
  <2> QED BY <2>2
<1> QED BY <1>7, <1>10, <1>11 DEF final

\* The saved plans are plans of their texts, each that is unresolved with a diagnostic, and
\* whoever is registered last is alone with the name.
LEMMA PersistKeeps ==
    ASSUME PrivacyInv, NEW j \in Upload, Persist(j)
    PROVE  PrivacyInv' /\ AddedAlone
<1> DEFINE w == worker[j]
           mine == Mine(j)
<1>0. PICK found \in SUBSET Proposals(j, w.plans) :
          LET plan == [r \in mine |-> Final(j, r, found)]
          IN  /\ Admits(found, Proposals(j, w.plans))
              /\ people' = WithPeople(people, found)
              /\ privacy_plans' =
                     [r \in Record |-> IF r \in mine THEN plan[r] ELSE privacy_plans[r]]
              /\ privacy_diagnostics' =
                     {d \in privacy_diagnostics : d.record \notin mine \/ d.state = "resolved"}
                         \cup UNION {Diagnostics(r, plan[r]) : r \in mine}
      BY DEF Persist, Mine
<1>1. /\ Admits(found, Proposals(j, w.plans))
      /\ people' = WithPeople(people, found)
      /\ privacy_plans' =
             [r \in Record |-> IF r \in mine THEN Final(j, r, found) ELSE privacy_plans[r]]
      /\ privacy_diagnostics' =
             {d \in privacy_diagnostics : d.record \notin mine \/ d.state = "resolved"}
                 \cup UNION {Diagnostics(r, Final(j, r, found)) : r \in mine}
  <2> HIDE DEF mine
  <2> QED BY <1>0
<1>2. /\ worker' = [worker EXCEPT ![j] = [phase |-> "apply"]] /\ w.phase = "persist"
      /\ UNCHANGED <<privacy_generation, job, restarts>>
      BY DEF Persist
<1>3. Persisting(j, w, privacy_generation)
  <2>1. Keeps(j, w, privacy_generation)
        BY DEF PrivacyInv, Workers
  <2>2. w.phase = "persist"
        BY <1>2
  <2> HIDE DEF w
  <2>3. ~Planning(j, w, privacy_generation)
        BY <2>2 DEF Planning
  <2>4. w # Idle /\ w # [phase |-> "apply"]
        BY <2>2 DEF Idle
  <2> QED BY <2>1, <2>3, <2>4 DEF Keeps
<1>4. /\ privacy_generation \in Nat /\ Rows(people)
      /\ PlansOf(j, w.plans, privacy_generation) /\ Len(w.plans) = Len(RecordsOf[j])
      BY <1>3, PrivacyAssumption DEF PrivacyInv, Stored, Persisting
<1>5. Workers'
      BY <1>2, <1>4, OneMoves DEF Keeps, PrivacyInv
<1>6. LET later == WithPeople(people, found)
      IN  /\ Rows(later)
          /\ \A p \in DOMAIN later \ DOMAIN people : Alone(later, p)
  <2> DEFINE plans == w.plans
  <2>1. PlansOf(j, plans, privacy_generation) /\ Admits(found, Proposals(j, plans))
        /\ found \in SUBSET Proposals(j, plans)
        BY <1>1, <1>4
  <2> HIDE DEF plans
  <2> QED BY <1>4, <2>1, AdmittedAlone
<1>7. Rows(people') /\ AddedAlone
      BY <1>1, <1>6 DEF AddedAlone
<1>8. ASSUME NEW r \in mine
      PROVE  LET plan == Final(j, r, found)
             IN  /\ SavedFor(r, plan, privacy_generation)
                 /\ Diagnostics(r, plan) \subseteq DiagnosticRow
                 /\ plan.unresolved =>
                        \E d \in Diagnostics(r, plan) : d.record = r /\ d.state = "open"
      BY <1>4, FinalRead
<1> HIDE DEF mine, w
<1>9. ASSUME NEW r \in Record
      PROVE  /\ SavedFor(r, privacy_plans'[r], privacy_generation)
             /\ privacy_plans'[r] # None /\ privacy_plans'[r].unresolved =>
                    \E d \in privacy_diagnostics' : d.record = r /\ d.state = "open"
  <2>1. CASE r \in mine
    <3>1. privacy_plans'[r] = Final(j, r, found)
          BY <1>1, <2>1
    <3>2. Diagnostics(r, Final(j, r, found)) \subseteq privacy_diagnostics'
          BY <1>1, <2>1
    <3> QED BY <1>8, <2>1, <3>1, <3>2
  <2>2. CASE r \notin mine
    <3>1. privacy_plans'[r] = privacy_plans[r]
          BY <1>1, <2>2
    <3>2. SavedFor(r, privacy_plans[r], privacy_generation)
          BY DEF PrivacyInv, Stored
    <3>3. \A d \in privacy_diagnostics : d.record = r => d \in privacy_diagnostics'
          BY <1>1, <2>2
    <3>4. privacy_plans[r] # None /\ privacy_plans[r].unresolved =>
              \E d \in privacy_diagnostics : d.record = r /\ d.state = "open"
          BY DEF PrivacyInv, UnresolvedExplained
    <3> QED BY <3>1, <3>2, <3>3, <3>4
  <2> QED BY <2>1, <2>2
<1>10. privacy_diagnostics' \subseteq DiagnosticRow
  <2>1. privacy_diagnostics \subseteq DiagnosticRow
        BY DEF PrivacyInv, Stored
  <2>2. \A r \in mine : Diagnostics(r, Final(j, r, found)) \subseteq DiagnosticRow
        BY <1>8
  <2> QED BY <1>1, <2>1, <2>2
<1>11. Stored' /\ UnresolvedExplained'
  <2>1. /\ privacy_generation \in 1..MaxGeneration /\ restarts \in 0..MaxRestarts
        /\ job \in [Upload -> {"running", "failed", "privacy_ready"}]
        BY DEF PrivacyInv, Stored
  <2> QED BY <1>2, <1>7, <1>9, <1>10, <2>1 DEF Stored, UnresolvedExplained
<1> QED BY <1>5, <1>7, <1>11 DEF PrivacyInv

\* What the other steps of a worker leave of the invariant: the job and the records change,
\* and the worker is idle.
LEMMA IdleKeeps ==
    ASSUME PrivacyInv, NEW j \in Upload, worker' = [worker EXCEPT ![j] = Idle],
           UNCHANGED <<people, privacy_generation, privacy_plans, privacy_diagnostics>>,
           job' \in [Upload -> {"running", "failed", "privacy_ready"}],
           restarts' \in 0..MaxRestarts
    PROVE  PrivacyInv'
<1>1. privacy_generation \in Nat /\ Rows(people')
      BY PrivacyAssumption DEF PrivacyInv, Stored
<1>2. Workers'
      BY <1>1, OneMoves DEF Keeps, PrivacyInv
<1> QED BY <1>1, <1>2, StoredStays DEF PrivacyInv

\* The records of an upload are released, or wait for an administrator.
LEMMA ApplyKeeps ==
    ASSUME PrivacyInv, NEW j \in Upload, Apply(j)
    PROVE  PrivacyInv'
<1>1. job \in [Upload -> {"running", "failed", "privacy_ready"}] /\ restarts \in 0..MaxRestarts
      BY DEF PrivacyInv, Stored
<1>2. job' \in [Upload -> {"running", "failed", "privacy_ready"}]
      BY <1>1 DEF Apply
<1>3. /\ worker' = [worker EXCEPT ![j] = Idle]
      /\ UNCHANGED <<people, privacy_generation, privacy_plans, privacy_diagnostics, restarts>>
      BY DEF Apply, registryVars
<1> QED BY <1>1, <1>2, <1>3, IdleKeeps

\* A job fails.
LEMMA RaiseKeeps ==
    ASSUME PrivacyInv, NEW j \in Upload, Raise(j)
    PROVE  PrivacyInv'
<1>1. job \in [Upload -> {"running", "failed", "privacy_ready"}] /\ restarts \in 0..MaxRestarts
      BY DEF PrivacyInv, Stored
<1>2. job' \in [Upload -> {"running", "failed", "privacy_ready"}]
      BY <1>1 DEF Raise
<1>3. /\ worker' = [worker EXCEPT ![j] = Idle]
      /\ UNCHANGED <<people, privacy_generation, privacy_plans, privacy_diagnostics, restarts>>
      BY DEF Raise, registryVars, reviewVars
<1> QED BY <1>1, <1>2, <1>3, IdleKeeps

\* A worker dies.
LEMMA CrashKeeps ==
    ASSUME PrivacyInv, NEW j \in Upload, Crash(j)
    PROVE  PrivacyInv'
<1>1. restarts' \in 0..MaxRestarts
      BY PrivacyAssumption DEF PrivacyInv, Stored, Crash
<1>2. /\ worker' = [worker EXCEPT ![j] = Idle]
      /\ UNCHANGED <<people, privacy_generation, privacy_plans, privacy_diagnostics, job>>
      BY DEF Crash, registryVars, reviewVars
<1>3. job' \in [Upload -> {"running", "failed", "privacy_ready"}]
      BY <1>2 DEF PrivacyInv, Stored
<1> QED BY <1>1, <1>2, <1>3, IdleKeeps

-----------------------------------------------------------------------------
(* The steps of administrators. *)

\* A failed job is taken up again.
LEMMA RetryJobKeeps ==
    ASSUME PrivacyInv, NEW j \in Upload, RetryJob(j)
    PROVE  PrivacyInv'
<1>1. /\ UNCHANGED <<people, privacy_generation, privacy_plans, privacy_diagnostics, worker>>
      /\ job' = [job EXCEPT ![j] = "running"] /\ restarts' = restarts + 1
      /\ restarts < MaxRestarts
      BY DEF RetryJob, registryVars, reviewVars
<1>2. /\ Rows(people) /\ restarts \in 0..MaxRestarts
      /\ job \in [Upload -> {"running", "failed", "privacy_ready"}]
      BY DEF PrivacyInv, Stored
<1>3. restarts' \in 0..MaxRestarts
      BY <1>1, <1>2, PrivacyAssumption
<1>4. job' \in [Upload -> {"running", "failed", "privacy_ready"}]
      BY <1>1, <1>2
<1>5. Stored' /\ UnresolvedExplained'
      BY <1>1, <1>2, <1>3, <1>4, StoredStays DEF PrivacyInv
<1>6. Workers'
      BY <1>1 DEF PrivacyInv, Workers
<1> QED BY <1>5, <1>6 DEF PrivacyInv

\* What workers hold was planned in some generation, be it an earlier one.
LEMMA WorkersStay ==
    ASSUME Workers, UNCHANGED worker, privacy_generation \in Nat,
           privacy_generation' \in Nat, privacy_generation <= privacy_generation'
    PROVE  Workers'
<1> DEFINE h == privacy_generation'
<1>1. h \in Nat /\ privacy_generation <= h
      OBVIOUS
<1> HIDE DEF h
<1>2. \A j \in Upload : Keeps(j, worker[j], h)
      BY <1>1, Later DEF Workers
<1> QED BY <1>2 DEF Workers, h

\* Records lose their plans and the generation grows: what else is saved stays, with the
\* reasons that are still open.
LEMMA DisturbedKeeps ==
    ASSUME PrivacyInv, NEW S, Disturbed(S), Rows(people'), UNCHANGED <<job, worker, restarts>>,
           privacy_diagnostics' \subseteq DiagnosticRow,
           \A d \in privacy_diagnostics : d.record \notin S => d \in privacy_diagnostics'
    PROVE  PrivacyInv'
<1>1. /\ privacy_generation < MaxGeneration
      /\ privacy_generation' = privacy_generation + 1
      /\ privacy_plans' = [r \in Record |-> IF r \in S THEN None ELSE privacy_plans[r]]
      BY DEF Disturbed
<1>2. privacy_generation \in 1..MaxGeneration /\ MaxGeneration \in Nat
      BY PrivacyAssumption DEF PrivacyInv, Stored
<1>3. /\ privacy_generation \in Nat /\ privacy_generation' \in 1..MaxGeneration
      /\ privacy_generation' \in Nat /\ privacy_generation <= privacy_generation'
      /\ 1..privacy_generation \subseteq 1..privacy_generation'
      BY <1>1, <1>2
<1>4. Workers'
      BY <1>3, WorkersStay DEF PrivacyInv
<1>5. \A r \in Record : privacy_plans'[r] # None => r \notin S /\ privacy_plans'[r] = privacy_plans[r]
      BY <1>1
<1>6. \A r \in Record : SavedFor(r, privacy_plans'[r], privacy_generation')
      BY <1>3, <1>5 DEF PrivacyInv, Stored, SavedFor
<1>7. Stored'
      BY <1>3, <1>6 DEF PrivacyInv, Stored
<1>8. UnresolvedExplained'
  <2> SUFFICES ASSUME NEW r \in Record, privacy_plans'[r] # None, privacy_plans'[r].unresolved
               PROVE  \E d \in privacy_diagnostics' : d.record = r /\ d.state = "open"
      BY DEF UnresolvedExplained
  <2>1. PICK d \in privacy_diagnostics : d.record = r /\ d.state = "open"
        BY <1>5 DEF PrivacyInv, UnresolvedExplained
  <2> QED BY <1>5, <2>1
<1> QED BY <1>4, <1>7, <1>8 DEF PrivacyInv

\* An administrator enters a person, or changes one.
LEMMA AssociatePersonKeeps ==
    ASSUME PrivacyInv, NEW p \in Enrolled \cup DOMAIN people, NEW row \in Association,
           AssociatePerson(p, row)
    PROVE  PrivacyInv'
<1>1. /\ people' = [q \in DOMAIN people \cup {p} |-> IF q = p THEN row ELSE people[q]]
      /\ UNCHANGED <<privacy_diagnostics, privacy_resolutions, job, worker, restarts>>
      BY DEF AssociatePerson
<1>2. Rows(people)
      BY DEF PrivacyInv, Stored
<1>3. Rows(people')
      BY <1>1, <1>2, PrivacyAssumption DEF Rows
<1>4. privacy_diagnostics \subseteq DiagnosticRow
      BY DEF PrivacyInv, Stored
<1>5. CASE p \in DOMAIN people
  <2>1. Disturbed(Record)
        BY <1>5 DEF AssociatePerson
  <2> QED BY <1>1, <1>3, <1>4, <2>1, DisturbedKeeps
<1>6. CASE p \notin DOMAIN people
  <2>1. UNCHANGED <<privacy_generation, privacy_plans>>
        BY <1>6 DEF AssociatePerson
  <2>2. /\ job \in [Upload -> {"running", "failed", "privacy_ready"}]
        /\ restarts \in 0..MaxRestarts
        BY DEF PrivacyInv, Stored
  <2>3. Stored' /\ UnresolvedExplained'
        BY <1>1, <1>3, <2>1, <2>2, StoredStays DEF PrivacyInv
  <2>4. Workers'
        BY <1>1, <2>1 DEF PrivacyInv, Workers
  <2> QED BY <2>3, <2>4 DEF PrivacyInv
<1> QED BY <1>5, <1>6

\* An administrator decides: the plan of the record goes with the question.
LEMMA ResolveDiagnosticKeeps ==
    ASSUME PrivacyInv, NEW d \in privacy_diagnostics, NEW decision, ResolveDiagnostic(d, decision)
    PROVE  PrivacyInv'
<1>1. /\ privacy_diagnostics' = (privacy_diagnostics \ {d}) \cup {[d EXCEPT !.state = "resolved"]}
      /\ Disturbed({d.record}) /\ UNCHANGED <<people, job, worker, restarts>>
      BY DEF ResolveDiagnostic
<1>2. Rows(people') /\ privacy_diagnostics \subseteq DiagnosticRow
      BY <1>1 DEF PrivacyInv, Stored
<1>3. privacy_diagnostics' \subseteq DiagnosticRow
  <2>1. [d EXCEPT !.state = "resolved"] \in DiagnosticRow
        BY <1>2 DEF DiagnosticRow
  <2> QED BY <1>1, <1>2, <2>1
<1>4. \A c \in privacy_diagnostics : c.record \notin {d.record} => c \in privacy_diagnostics'
      BY <1>1
<1> QED BY <1>1, <1>2, <1>3, <1>4, DisturbedKeeps

-----------------------------------------------------------------------------
(* The theorems. *)

\* Nothing is planned yet.
LEMMA InitPrivacy ==
    ASSUME Init
    PROVE  PrivacyInv
<1>1. Rows(people)
      BY PrivacyAssumption DEF Init, Rows
<1>2. privacy_generation = 1 /\ 1 \in 1..MaxGeneration /\ restarts = 0 /\ 0 \in 0..MaxRestarts
      BY PrivacyAssumption DEF Init
<1>3. \A r \in Record : privacy_plans[r] = None
      BY DEF Init
<1>4. /\ privacy_diagnostics = {}
      /\ job \in [Upload -> {"running", "failed", "privacy_ready"}]
      BY DEF Init
<1>5. Workers
      BY DEF Init, Workers, Keeps
<1> QED BY <1>1, <1>2, <1>3, <1>4, <1>5
        DEF PrivacyInv, Stored, SavedFor, UnresolvedExplained

\* Each step keeps the invariant.
LEMMA StepPrivacy ==
    ASSUME PrivacyInv, [Next]_vars
    PROVE  PrivacyInv'
<1>1. ASSUME NEW j \in Upload, Work(j)
      PROVE  PrivacyInv'
      BY <1>1, ReadPrivateKeeps, LookKeeps, PlanRecordKeeps, PersistKeeps, ApplyKeeps,
         RaiseKeeps DEF Work
<1>2. ASSUME NEW j \in Upload, Crash(j) \/ RetryJob(j)
      PROVE  PrivacyInv'
      BY <1>2, CrashKeeps, RetryJobKeeps
<1>3. ASSUME NEW p \in Enrolled \cup DOMAIN people, NEW row \in Association,
             AssociatePerson(p, row)
      PROVE  PrivacyInv'
      BY <1>3, AssociatePersonKeeps
<1>4. ASSUME NEW d \in privacy_diagnostics, NEW decision \in Offered(d.kind),
             ResolveDiagnostic(d, decision)
      PROVE  PrivacyInv'
      BY <1>4, ResolveDiagnosticKeeps
<1>5. CASE UNCHANGED vars
  <2>1. UNCHANGED <<people, privacy_generation, privacy_plans, privacy_diagnostics, job, worker,
                    restarts>>
        BY <1>5 DEF vars, registryVars, reviewVars
  <2>2. Workers'
        BY <2>1 DEF PrivacyInv, Workers
  <2>3. Stored'
        BY <2>1 DEF PrivacyInv, Stored
  <2>4. UnresolvedExplained'
        BY <2>1 DEF PrivacyInv, UnresolvedExplained
  <2> QED BY <2>2, <2>3, <2>4 DEF PrivacyInv
<1> QED BY <1>1, <1>2, <1>3, <1>4, <1>5 DEF Next

\* The inductive invariant: what is stored and what workers remember is of the texts it was
\* made from, in every generation.
LEMMA PrivacyInvariant == Spec => []PrivacyInv
<1>1. Init => PrivacyInv
      BY InitPrivacy
<1>2. PrivacyInv /\ [Next]_vars => PrivacyInv'
      BY StepPrivacy
<1> QED BY <1>1, <1>2, PTL DEF Spec

\* Every variable keeps to the values the code gives it, whatever the mapper answers.
THEOREM PrivacyTypes == Spec => []PrivacyTypeOK
<1>1. PrivacyInv => PrivacyTypeOK
      BY InvTyped
<1> QED BY <1>1, PrivacyInvariant, PTL

\* Where a saved plan is unresolved, a diagnostic of its record is open: persist raises one
\* for each of its entities, and whatever closes one drops the plan.
THEOREM UnresolvedAlwaysExplained == Spec => []UnresolvedExplained
<1>1. PrivacyInv => UnresolvedExplained
      BY DEF PrivacyInv
<1> QED BY <1>1, PrivacyInvariant, PTL

\* No step of a worker gives a name to a second person, although it has read the registry
\* steps before: registering and persisting ask again for whoever has the name.
THEOREM NamesNeverDuplicated == Spec => RegistryNeverDuplicates
<1> DEFINE Duplicates ==
        (\E j \in Upload : worker'[j] # worker[j]) =>
            \A p \in DOMAIN people' \ DOMAIN people :
                CalledBy(people', people'[p].display_name) = {p}
<1>1. AddedAlone => Duplicates
      BY DEF AddedAlone, Alone
<1>2. UNCHANGED people => AddedAlone
      BY DEF AddedAlone
<1>3. PrivacyInv /\ [Next]_vars => [Duplicates]_vars
  <2> SUFFICES ASSUME PrivacyInv, Next
               PROVE  Duplicates
      OBVIOUS
  <2> HIDE DEF Duplicates
  <2>1. ASSUME NEW j \in Upload, Work(j) \/ Crash(j) \/ RetryJob(j)
        PROVE  AddedAlone
    <3>1. CASE PlanRecord(j) \/ Persist(j)
          BY <3>1, PlanRecordKeeps, PersistKeeps
    <3>2. CASE ReadPrivate(j) \/ Look(j) \/ Apply(j) \/ Raise(j) \/ Crash(j) \/ RetryJob(j)
      <4>1. UNCHANGED people
            BY <3>2 DEF ReadPrivate, Look, Apply, Raise, Crash, RetryJob, registryVars
      <4> QED BY <1>2, <4>1
    <3> QED BY <2>1, <3>1, <3>2 DEF Work
  <2>2. UNCHANGED worker => Duplicates
        BY DEF Duplicates
  <2>3. ASSUME NEW p \in Enrolled \cup DOMAIN people, NEW row \in Association,
               AssociatePerson(p, row)
        PROVE  UNCHANGED worker
        BY <2>3 DEF AssociatePerson
  <2>4. ASSUME NEW d \in privacy_diagnostics, NEW decision \in Offered(d.kind),
               ResolveDiagnostic(d, decision)
        PROVE  UNCHANGED worker
        BY <2>4 DEF ResolveDiagnostic
  <2> QED BY <1>1, <2>1, <2>2, <2>3, <2>4 DEF Next
<1> QED BY <1>3, PrivacyInvariant, PTL DEF Spec, RegistryNeverDuplicates

\* What is not planned is bound only to people that no other of the same alias can be meant
\* instead of, in any text and any registry: normalize "never guesses between same-name
\* people".
THEOREM NormalizeBindsOne ==
    ASSUME NEW text, NEW registry, IsFiniteSet(DOMAIN registry),
           NEW p \in Normalize(text, registry).person_ids
    PROVE  \E words \in Aliases(registry[p]) :
               /\ Matches(text, {words}) # {}
               /\ \/ CalledBy(registry, words) = {p}
                  \/ {q \in CalledBy(registry, words) :
                         Matches(text, registry[q].contacts) # {}} = {p}
<1> DEFINE forms == UNION {Aliases(registry[q]) : q \in DOMAIN registry}
           bound(r) == Choice(text, registry, Words(text, r))
<1>1. PICK r \in Matches(text, forms) : p = bound(r) /\ p # Ambiguous
      BY DEF Normalize, Plain
<1> DEFINE words == Words(text, r)
           owners == CalledBy(registry, words)
           supported == {q \in owners : Matches(text, registry[q].contacts) # {}}
<1>2. r \in Ranges(text) /\ Matches(text, {words}) # {}
      BY DEF Matches
<1>3. owners \subseteq DOMAIN registry /\ supported \subseteq owners
      BY DEF CalledBy
<1>4. \A S \in SUBSET owners : Cardinality(S) = 1 => S = {The(S)}
  <2> SUFFICES ASSUME NEW S \in SUBSET owners, Cardinality(S) = 1
               PROVE  S = {The(S)}
      OBVIOUS
  <2>1. IsFiniteSet(S)
        BY <1>3, FS_Subset
  <2>2. PICK x : S = {x}
        BY <2>1, FS_Singleton
  <2> QED BY <2>2 DEF The
<1>5. bound(r) = CASE Cardinality(owners) = 1 -> The(owners)
                   [] Cardinality(supported) = 1 -> The(supported)
                   [] OTHER -> Ambiguous
      BY DEF Choice
<1>6. \A q \in owners : words \in Aliases(registry[q])
      BY DEF CalledBy
<1> HIDE DEF owners, words, bound
<1>7. CASE Cardinality(owners) = 1
  <2>1. owners = {p}
        BY <1>1, <1>4, <1>5, <1>7
  <2>2. words \in Aliases(registry[p])
        BY <1>6, <2>1
  <2> QED BY <1>2, <2>1, <2>2 DEF owners
<1>8. CASE Cardinality(owners) # 1 /\ Cardinality(supported) = 1
  <2>1. supported = {p}
        BY <1>1, <1>3, <1>4, <1>5, <1>8
  <2>2. words \in Aliases(registry[p])
        BY <1>3, <1>6, <2>1
  <2> QED BY <1>2, <2>1, <2>2 DEF owners
<1> QED BY <1>1, <1>5, <1>7, <1>8

-----------------------------------------------------------------------------
(* Induction over a text. *)

\* A set of naturals has a least one.
LEMMA Least ==
    ASSUME NEW T \in SUBSET Nat, T # {}
    PROVE  \E m \in T : \A k \in T : m <= k
<1> DEFINE R == OpToRel(<, Nat)
<1>1. IsWellFoundedOn(R, Nat)
      BY NatLessThanWellFounded
<1>2. \A k, m \in Nat : k < m => <<k, m>> \in R
      BY DEF OpToRel
<1> HIDE DEF R
<1>3. PICK m \in T : \A k \in T : ~ (<<k, m>> \in R)
      BY <1>1, WFMin
<1>4. ASSUME NEW k \in T PROVE m <= k
  <2>1. k \in Nat /\ m \in Nat
        OBVIOUS
  <2>2. ~(k < m)
        BY <1>2, <1>3, <2>1
  <2> QED BY <2>1, <2>2
<1> QED BY <1>4

\* What holds at a place if it holds at all later ones holds everywhere.
LEMMA Downward ==
    ASSUME NEW n \in Nat, NEW T,
           \A i \in 0..n : (\A k \in (i + 1)..n : k \in T) => i \in T
    PROVE  \A i \in 0..n : i \in T
<1> SUFFICES ASSUME NEW j \in 0..n, j \notin T PROVE FALSE
    OBVIOUS
<1> DEFINE D == {d \in 0..n : n - d \notin T}
<1>1. D \in SUBSET Nat /\ n - j \in D
      OBVIOUS
<1>2. PICK m \in D : \A k \in D : m <= k
      BY <1>1, Least
<1>3. n - m \in 0..n /\ n - m \notin T /\ m \in 0..n
      BY <1>2
<1>4. ASSUME NEW k \in (n - m + 1)..n
      PROVE  k \in T
  <2>1. n - k \in 0..n /\ n - (n - k) = k /\ ~(m <= n - k)
        BY <1>3
  <2> HIDE DEF D
  <2>2. n - k \notin D
        BY <1>2, <2>1
  <2> QED BY <2>1, <2>2 DEF D
<1> QED BY <1>3, <1>4

\* t is x and then s.
Prepends(t, x, s) ==
    /\ Len(s) \in Nat /\ Len(t) = Len(s) + 1
    /\ t[1] = x
    /\ \A k \in 1..Len(s) : t[k + 1] = s[k]

\* A word before a sequence.
LEMMA Prepended ==
    ASSUME NEW S, NEW x \in S, NEW s \in Seq(S), NEW t, t = <<x>> \o s
    PROVE  t \in Seq(S) /\ Prepends(t, x, s)
<1>1. <<x>> \in Seq(S) /\ Len(<<x>>) = 1 /\ <<x>>[1] = x /\ Len(s) \in Nat
      OBVIOUS
<1>2. <<x>> \o s \in Seq(S) /\ Len(<<x>> \o s) = 1 + Len(s)
      BY <1>1, ConcatProperties
<1>3. (<<x>> \o s)[1] = x /\ \A k \in 1..Len(s) : (<<x>> \o s)[k + 1] = s[k]
      BY <1>1, ConcatProperties
<1>4. Len(t) = Len(s) + 1 /\ t \in Seq(S)
      BY <1>1, <1>2
<1> QED BY <1>1, <1>3, <1>4 DEF Prepends

-----------------------------------------------------------------------------
(* Edits of a text. *)

\* The edits that start at a place, the longest of them, and edits that lie in a text.
Starting(edits, i) == {e \in edits : e.start = i}
Longest(edits, i) == CHOOSE e \in Starting(edits, i) : \A f \in Starting(edits, i) : f.end <= e.end
EditsOf(text, edits) ==
    \A e \in edits : e.start \in Nat /\ e.end \in 0..Len(text) /\ e.start < e.end

\* What is left of the text from each place on, given the same for later places.
Step(text, edits, piece, from, i) ==
    IF i = Len(text) THEN <<>>
    ELSE IF Starting(edits, i) = {} THEN <<text[i + 1]>> \o from[i + 1]
    ELSE <<piece[Longest(edits, i)]>> \o from[Longest(edits, i).end]

\* All of it: what the rewriting is defined by.
Left(text, edits, piece) ==
    CHOOSE from : from = [i \in 0..Len(text) |-> Step(text, edits, piece, from, i)]

\* The longest edit of a place ends beyond it.
LEMMA LongestEnds ==
    ASSUME NEW text, Len(text) \in Nat, NEW edits, EditsOf(text, edits),
           NEW i, Starting(edits, i) # {}
    PROVE  /\ Longest(edits, i) \in edits /\ Longest(edits, i).start = i
           /\ Longest(edits, i).end \in (i + 1)..Len(text)
<1> DEFINE D == {Len(text) - e.end : e \in Starting(edits, i)}
<1>1. \A e \in Starting(edits, i) :
          e \in edits /\ e.start = i /\ e.end \in 0..Len(text) /\ i \in Nat /\ i < e.end
      BY DEF Starting, EditsOf
<1>2. D \in SUBSET Nat /\ D # {}
      BY <1>1
<1>3. PICK m \in D : \A k \in D : m <= k
      BY <1>2, Least
<1>4. PICK e \in Starting(edits, i) : m = Len(text) - e.end
      OBVIOUS
<1>5. ASSUME NEW f \in Starting(edits, i) PROVE f.end <= e.end
  <2>1. Len(text) - e.end <= Len(text) - f.end
        BY <1>3, <1>4
  <2> QED BY <1>1, <2>1
<1>6. Longest(edits, i) \in Starting(edits, i)
      BY <1>5 DEF Longest
<1> QED BY <1>1, <1>6

\* A step looks at later places only.
LEMMA StepLater ==
    ASSUME NEW text, Len(text) \in Nat, NEW edits, EditsOf(text, edits), NEW piece,
           NEW i \in 0..Len(text), NEW g, NEW h,
           \A k \in (i + 1)..Len(text) : g[k] = h[k]
    PROVE  Step(text, edits, piece, g, i) = Step(text, edits, piece, h, i)
<1>1. CASE i = Len(text)
      BY <1>1 DEF Step
<1>2. CASE i # Len(text) /\ Starting(edits, i) = {}
  <2>1. i + 1 \in (i + 1)..Len(text)
        BY <1>2
  <2>2. g[i + 1] = h[i + 1]
        BY <2>1
  <2> QED BY <1>2, <2>2 DEF Step
<1>3. CASE i # Len(text) /\ Starting(edits, i) # {}
  <2>1. Longest(edits, i).end \in (i + 1)..Len(text)
        BY <1>3, LongestEnds
  <2>2. g[Longest(edits, i).end] = h[Longest(edits, i).end]
        BY <2>1
  <2> QED BY <1>3, <2>2 DEF Step
<1> QED BY <1>1, <1>2, <1>3

\* The rewriting from each place on is defined.
LEMMA LeftDefined ==
    ASSUME NEW text, Len(text) \in Nat, NEW edits, EditsOf(text, edits), NEW piece
    PROVE  LET from == Left(text, edits, piece)
           IN  from = [i \in 0..Len(text) |-> Step(text, edits, piece, from, i)]
<1> DEFINE n == Len(text)
           Good(h, i) == h = [k \in i..n |-> Step(text, edits, piece, h, k)]
           T == {i \in 0..n : \E h : Good(h, i)}
<1>1. ASSUME NEW i \in 0..n, \A k \in (i + 1)..n : k \in T
      PROVE  i \in T
  <2>1. \E h : \A k \in (i + 1)..n : h[k] = Step(text, edits, piece, h, k)
    <3>1. CASE i = n
          BY <3>1
    <3>2. CASE i # n
      <4>1. i + 1 \in T
            BY <1>1, <3>2
      <4>2. PICK h : Good(h, i + 1)
            BY <4>1
      <4> QED BY <4>2
    <3> QED BY <3>1, <3>2
  <2>2. PICK h : \A k \in (i + 1)..n : h[k] = Step(text, edits, piece, h, k)
        BY <2>1
  <2> DEFINE g == [k \in i..n |-> IF k = i THEN Step(text, edits, piece, h, i) ELSE h[k]]
  <2>3. \A k \in (i + 1)..n : g[k] = h[k]
        OBVIOUS
  <2>4. g[i] = Step(text, edits, piece, h, i)
        OBVIOUS
  <2>5. DOMAIN g = i..n /\ g = [k \in i..n |-> g[k]]
        OBVIOUS
  <2> HIDE DEF g
  <2>6. ASSUME NEW k \in i..n
        PROVE  g[k] = Step(text, edits, piece, g, k)
    <3>1. \A m \in (k + 1)..n : g[m] = h[m]
          BY <2>3
    <3>2. Step(text, edits, piece, g, k) = Step(text, edits, piece, h, k)
          BY <3>1, StepLater
    <3>3. CASE k = i
          BY <2>4, <3>2, <3>3
    <3>4. CASE k # i
      <4>1. k \in (i + 1)..n
            BY <3>4
      <4> QED BY <2>2, <2>3, <3>2, <4>1
    <3> QED BY <3>3, <3>4
  <2>7. Good(g, i)
        BY <2>5, <2>6
  <2> QED BY <2>7
<1>2. n \in Nat /\ 0 \in 0..n
      OBVIOUS
<1>3. 0 \in T
  <2> HIDE DEF T, n
  <2> QED BY <1>1, <1>2, Downward
<1>4. \E h : h = [k \in 0..n |-> Step(text, edits, piece, h, k)]
      BY <1>3
<1> QED BY <1>4 DEF Left

\* That is what rewriting a text does.
LEMMA RewrittenLeft ==
    ASSUME NEW text, NEW edits, NEW piece
    PROVE  Rewritten(text, edits, piece) = Left(text, edits, piece)[0]
BY Zenon DEF Rewritten, Left, Step, Starting, Longest

\* Its values: words of the text and pieces.
LEMMA LeftValues ==
    ASSUME NEW S, NEW text \in Seq(S), NEW edits, EditsOf(text, edits),
           NEW piece, \A e \in edits : piece[e] \in S
    PROVE  LET from == Left(text, edits, piece)
           IN  /\ \A i \in 0..Len(text) : from[i] \in Seq(S)
               /\ \A i \in 0..Len(text) : from[i] = Step(text, edits, piece, from, i)
<1> DEFINE n == Len(text)
           from == Left(text, edits, piece)
           T == {i \in 0..n : from[i] \in Seq(S)}
<1>1. n \in Nat /\ \A i \in 1..n : text[i] \in S
      OBVIOUS
<1>2. \A i \in 0..n : from[i] = Step(text, edits, piece, from, i)
  <2>1. from = [i \in 0..n |-> Step(text, edits, piece, from, i)]
        BY <1>1, LeftDefined
  <2> HIDE DEF from
  <2> QED BY <2>1
<1> HIDE DEF from
<1>3. ASSUME NEW i \in 0..n, \A k \in (i + 1)..n : k \in T
      PROVE  i \in T
  <2>1. CASE i = n
    <3>1. from[i] = <<>>
          BY <1>2, <2>1 DEF Step
    <3>2. <<>> \in Seq(S)
          OBVIOUS
    <3>3. from[i] \in Seq(S)
          BY <3>1, <3>2
    <3> QED BY <3>3
  <2>2. CASE i # n /\ Starting(edits, i) = {}
    <3>1. i + 1 \in (i + 1)..n /\ text[i + 1] \in S
          BY <1>1, <2>2
    <3>2. from[i] = <<text[i + 1]>> \o from[i + 1] /\ from[i + 1] \in Seq(S)
          BY <1>2, <1>3, <2>2, <3>1 DEF Step
    <3>3. from[i] \in Seq(S)
          BY <3>1, <3>2, Prepended
    <3> QED BY <3>3
  <2>3. CASE i # n /\ Starting(edits, i) # {}
    <3> DEFINE e == Longest(edits, i)
    <3>1. e.end \in (i + 1)..n /\ e \in edits
          BY <1>1, <2>3, LongestEnds
    <3>2. piece[e] \in S /\ from[i] = <<piece[e]>> \o from[e.end] /\ from[e.end] \in Seq(S)
          BY <1>2, <1>3, <2>3, <3>1 DEF Step
    <3> HIDE DEF e
    <3>3. from[i] \in Seq(S)
          BY <3>2, Prepended
    <3> QED BY <3>3
  <2> QED BY <2>1, <2>2, <2>3
<1>4. \A i \in 0..n : i \in T
  <2> HIDE DEF T
  <2> QED BY <1>1, <1>3, Downward
<1> QED BY <1>2, <1>4 DEF from

\* From its word j on, w is what s begins with.
Begins(s, w, j) ==
    Len(w) - j + 1 <= Len(s) /\ \A q \in j..Len(w) : s[q - j + 1] = w[q]

\* From its word j on, w stands in the text at i, and no edit starts there.
Stands(text, edits, i, w, j) ==
    \A q \in j..Len(w) :
        i + q - j < Len(text) /\ text[i + q - j + 1] = w[q] /\ Starting(edits, i + q - j) = {}

\* Words that are no pieces are what they were.
LEMMA PrefixKept ==
    ASSUME NEW S, NEW text \in Seq(S), NEW edits, EditsOf(text, edits),
           NEW piece, \A e \in edits : piece[e] \in S,
           NEW w \in Seq(S), \A q \in 1..Len(w), e \in edits : w[q] # piece[e],
           NEW i \in 0..Len(text), NEW j \in 1..(Len(w) + 1),
           Begins(Left(text, edits, piece)[i], w, j)
    PROVE  Stands(text, edits, i, w, j)
<1> DEFINE n == Len(text)
           from == Left(text, edits, piece)
           T == {k \in 0..n : \A m \in 1..(Len(w) + 1) :
                     Begins(from[k], w, m) => Stands(text, edits, k, w, m)}
<1>1. n \in Nat /\ Len(w) \in Nat /\ \A k \in 1..n : text[k] \in S
      OBVIOUS
<1>2. /\ \A k \in 0..n : from[k] \in Seq(S)
      /\ \A k \in 0..n : from[k] = Step(text, edits, piece, from, k)
      BY LeftValues
<1> HIDE DEF from
<1>3. ASSUME NEW k \in 0..n, \A m \in (k + 1)..n : m \in T,
             NEW m \in 1..(Len(w) + 1), Begins(from[k], w, m)
      PROVE  Stands(text, edits, k, w, m)
  <2>1. CASE m = Len(w) + 1
    <3>1. m..Len(w) = {}
          BY <1>1, <2>1
    <3> QED BY <3>1 DEF Stands
  <2>2. CASE m # Len(w) + 1
    <3>0. /\ m \in 1..Len(w) /\ Len(from[k]) >= 1
          /\ from[k][1] = w[m]
      <4>1. m \in 1..Len(w) /\ m - m + 1 = 1 /\ Len(w) - m + 1 >= 1
            BY <1>1, <2>2
      <4>2. Len(from[k]) \in Nat
            BY <1>2
      <4> QED BY <1>3, <4>1, <4>2 DEF Begins
    <3>1. k # n
      <4>1. ASSUME k = n PROVE FALSE
        <5>1. from[k] = <<>>
              BY <1>2, <4>1 DEF Step
        <5> QED BY <3>0, <5>1
      <4> QED BY <4>1
    <3>2. Starting(edits, k) = {}
      <4>1. ASSUME Starting(edits, k) # {} PROVE FALSE
        <5> DEFINE e == Longest(edits, k)
        <5>1. e \in edits /\ e.end \in (k + 1)..n
              BY <1>1, <4>1, LongestEnds
        <5>2. from[k] = <<piece[e]>> \o from[e.end]
              BY <1>2, <3>1, <4>1 DEF Step
        <5> HIDE DEF e
        <5>3. e.end \in 0..n
              BY <5>1
        <5>4. piece[e] \in S /\ from[e.end] \in Seq(S)
              BY <1>2, <5>1, <5>3
        <5>5. Prepends(from[k], piece[e], from[e.end])
              BY <5>2, <5>4, Prepended
        <5>6. from[k][1] = piece[e]
              BY <5>5 DEF Prepends
        <5> QED BY <3>0, <5>1, <5>6
      <4> QED BY <4>1
    <3>3. from[k] = <<text[k + 1]>> \o from[k + 1]
          BY <1>2, <3>1, <3>2 DEF Step
    <3>4. k + 1 \in 0..n /\ k + 1 \in (k + 1)..n /\ text[k + 1] \in S /\ from[k + 1] \in Seq(S)
          BY <1>1, <1>2, <3>1
    <3>5. /\ Len(from[k]) = Len(from[k + 1]) + 1
          /\ from[k][1] = text[k + 1]
          /\ \A q \in 1..Len(from[k + 1]) : from[k][q + 1] = from[k + 1][q]
          /\ Len(from[k + 1]) \in Nat
      <4>1. Prepends(from[k], text[k + 1], from[k + 1])
            BY <3>3, <3>4, Prepended
      <4> QED BY <4>1 DEF Prepends
    <3>6. Begins(from[k + 1], w, m + 1)
      <4>1. Len(w) - (m + 1) + 1 <= Len(from[k + 1])
            BY <1>1, <1>3, <3>5 DEF Begins
      <4>2. ASSUME NEW q \in (m + 1)..Len(w)
            PROVE  from[k + 1][q - (m + 1) + 1] = w[q]
        <5>1. q - m \in 1..Len(from[k + 1]) /\ q \in m..Len(w) /\ q - (m + 1) + 1 = q - m
              BY <1>1, <4>1, <3>5
        <5>2. from[k][q - m + 1] = w[q]
              BY <1>3, <5>1 DEF Begins
        <5>3. from[k][q - m + 1] = from[k + 1][q - m]
              BY <3>5, <5>1
        <5> QED BY <5>1, <5>2, <5>3
      <4> QED BY <4>1, <4>2 DEF Begins
    <3>7. Stands(text, edits, k + 1, w, m + 1)
      <4>1. k + 1 \in T /\ m + 1 \in 1..(Len(w) + 1)
            BY <1>3, <3>0, <3>4
      <4> HIDE DEF n
      <4> QED BY <3>6, <4>1
    <3>8. ASSUME NEW q \in m..Len(w)
          PROVE  /\ k + q - m < n /\ text[k + q - m + 1] = w[q]
                 /\ Starting(edits, k + q - m) = {}
      <4>1. CASE q = m
        <5>1. k + q - m = k /\ k < n
              BY <4>1, <3>1
        <5> QED BY <3>0, <3>2, <3>5, <4>1, <5>1
      <4>2. CASE q # m
        <5>1. q \in (m + 1)..Len(w) /\ (k + 1) + q - (m + 1) = k + q - m
              BY <4>2
        <5> QED BY <3>7, <5>1 DEF Stands
      <4> QED BY <4>1, <4>2
    <3> QED BY <3>8 DEF Stands
  <2> QED BY <2>1, <2>2
<1>4. \A k \in 0..n : k \in T
  <2>1. ASSUME NEW k \in 0..n, \A m \in (k + 1)..n : m \in T PROVE k \in T
        BY <1>3, <2>1
  <2> HIDE DEF T
  <2> QED BY <1>1, <2>1, Downward
<1> QED BY <1>4 DEF from

\* w stands in s after its first k words.
Found(s, k, w) == k + Len(w) <= Len(s) /\ \A q \in 1..Len(w) : s[k + q] = w[q]

\* The places where the rewriting goes on are among F.
Visits(text, edits, F) ==
    /\ 0 \in F
    /\ \A i \in F \cap (0..Len(text)) : i # Len(text) =>
           IF Starting(edits, i) = {} THEN i + 1 \in F ELSE Longest(edits, i).end \in F

\* What is left of the words that are no pieces stood in the text where no edit starts.
LEMMA OccurrenceKept ==
    ASSUME NEW S, NEW text \in Seq(S), NEW edits, EditsOf(text, edits),
           NEW piece, \A e \in edits : piece[e] \in S,
           NEW w \in Seq(S), Len(w) >= 1, \A q \in 1..Len(w), e \in edits : w[q] # piece[e],
           NEW F, Visits(text, edits, F),
           NEW k \in Nat, Found(Rewritten(text, edits, piece), k, w)
    PROVE  \E m \in F \cap (0..Len(text)) : Stands(text, edits, m, w, 1)
<1> DEFINE n == Len(text)
           from == Left(text, edits, piece)
           Somewhere == \E m \in F \cap (0..n) : Stands(text, edits, m, w, 1)
           T == {i \in 0..n : i \in F => \A x \in Nat : Found(from[i], x, w) => Somewhere}
<1>1. n \in Nat /\ Len(w) \in Nat /\ \A i \in 1..n : text[i] \in S
      OBVIOUS
<1>2. /\ \A i \in 0..n : from[i] \in Seq(S)
      /\ \A i \in 0..n : from[i] = Step(text, edits, piece, from, i)
      BY LeftValues
<1>3. ASSUME NEW i \in 0..n, Begins(from[i], w, 1)
      PROVE  Stands(text, edits, i, w, 1)
  <2>1. 1 \in 1..(Len(w) + 1) /\ i \in 0..Len(text) /\ Begins(Left(text, edits, piece)[i], w, 1)
        BY <1>1, <1>3
  <2> HIDE DEF from, n
  <2> QED BY <2>1, PrefixKept
<1> HIDE DEF from, Somewhere
<1>4. ASSUME NEW i \in 0..n, \A m \in (i + 1)..n : m \in T, i \in F,
             NEW x \in Nat, Found(from[i], x, w)
      PROVE  Somewhere
  <2>1. CASE x = 0
    <3>1. Begins(from[i], w, 1)
      <4>1. Len(w) - 1 + 1 = Len(w) /\ x + Len(w) = Len(w)
            BY <1>1, <2>1
      <4>2. \A q \in 1..Len(w) : q - 1 + 1 = x + q
            BY <1>1, <2>1
      <4> QED BY <1>4, <4>1, <4>2 DEF Begins, Found
    <3> QED BY <1>3, <1>4, <3>1 DEF Somewhere
  <2>2. CASE x # 0
    <3> DEFINE e == Longest(edits, i)
               first == IF Starting(edits, i) = {} THEN text[i + 1] ELSE piece[e]
               next == IF Starting(edits, i) = {} THEN i + 1 ELSE e.end
    <3>1. i # n
      <4>1. ASSUME i = n PROVE FALSE
        <5>1. from[i] = <<>>
              BY <1>2, <4>1 DEF Step
        <5>2. Len(from[i]) = 0
              BY <5>1
        <5> QED BY <1>1, <1>4, <5>2 DEF Found
      <4> QED BY <4>1
    <3>2. Starting(edits, i) # {} => e \in edits /\ e.end \in (i + 1)..n
          BY <1>1, LongestEnds
    <3>3. from[i] = <<first>> \o from[next]
          BY <1>2, <3>1 DEF Step
    <3>4. next \in (i + 1)..n /\ next \in F
          BY <1>1, <1>4, <3>1, <3>2 DEF Visits
    <3>5. first \in S
          BY <1>1, <3>1, <3>2
    <3> HIDE DEF first, next, e
    <3>6. next \in 0..n /\ from[next] \in Seq(S)
          BY <1>2, <3>4
    <3>7. /\ Len(from[i]) = Len(from[next]) + 1
          /\ \A q \in 1..Len(from[next]) : from[i][q + 1] = from[next][q]
          /\ Len(from[next]) \in Nat
      <4>1. Prepends(from[i], first, from[next])
            BY <3>3, <3>5, <3>6, Prepended
      <4> QED BY <4>1 DEF Prepends
    <3>8. Found(from[next], x - 1, w)
      <4>1. x - 1 + Len(w) <= Len(from[next])
            BY <1>1, <1>4, <3>7 DEF Found
      <4>2. ASSUME NEW q \in 1..Len(w)
            PROVE  from[next][x - 1 + q] = w[q]
        <5>1. x - 1 + q \in 1..Len(from[next]) /\ (x - 1 + q) + 1 = x + q
              BY <1>1, <2>2, <3>7, <4>1
        <5>2. from[i][x + q] = w[q]
              BY <1>4 DEF Found
        <5> QED BY <3>7, <5>1, <5>2
      <4> QED BY <4>1, <4>2 DEF Found
    <3>9. x - 1 \in Nat /\ next \in T
          BY <1>4, <2>2, <3>4
    <3> QED BY <3>4, <3>8, <3>9
  <2> QED BY <2>1, <2>2
<1>5. \A i \in 0..n : i \in T
  <2>1. ASSUME NEW i \in 0..n, \A m \in (i + 1)..n : m \in T PROVE i \in T
        BY <1>4, <2>1
  <2> HIDE DEF T
  <2> QED BY <1>1, <2>1, Downward
<1>6. Found(from[0], k, w)
      BY RewrittenLeft DEF from
<1>7. 0 \in T /\ 0 \in F
      BY <1>1, <1>5 DEF Visits
<1> QED BY <1>6, <1>7 DEF Somewhere

\* A range names a word sequence.
LEMMA RangeWords ==
    ASSUME NEW S, NEW s \in Seq(S), NEW r \in Ranges(s)
    PROVE  /\ r.start \in 0..Len(s) /\ r.end \in 0..Len(s) /\ r.start < r.end
           /\ Words(s, r) \in Seq(S) /\ Len(Words(s, r)) = r.end - r.start
           /\ \A q \in 1..(r.end - r.start) : Words(s, r)[q] = s[r.start + q]
<1>1. r.start \in 0..Len(s) /\ r.end \in 0..Len(s) /\ r.start < r.end /\ Len(s) \in Nat
      BY DEF Ranges
<1> DEFINE m == r.start + 1
           n == r.end
           w == SubSeq(s, m, n)
<1>2. m \in 1..(Len(s) + 1) /\ n \in m..Len(s) /\ n - m + 1 = r.end - r.start
      BY <1>1
<1>3. Words(s, r) = w
      BY DEF Words
<1>4. /\ w \in Seq(S) /\ Len(w) = n - m + 1
      /\ \A q \in 1..(n - m + 1) : w[q] = s[m + q - 1]
  <2>1. m \in Int /\ n \in Int /\ m <= n /\ \A i \in m..n : s[i] \in S
    <3>1. m \in 1..(Len(s) + 1) /\ n \in m..Len(s) /\ \A i \in 1..Len(s) : s[i] \in S
          BY <1>2
    <3> HIDE DEF m, n
    <3> QED BY <1>1, <3>1
  <2> HIDE DEF m, n
  <2> QED BY <2>1, SubSeqProperties
<1>5. \A q \in 1..(r.end - r.start) : m + q - 1 = r.start + q
      BY <1>1
<1> HIDE DEF m, n, w
<1> QED BY <1>1, <1>2, <1>3, <1>4, <1>5

\* The range at m with as many words as w.
RangeAt(m, w) == [start |-> m, end |-> m + Len(w)]

\* Where w stands it is the words of a range.
LEMMA StandsWords ==
    ASSUME NEW S, NEW text \in Seq(S), NEW edits, NEW w \in Seq(S), Len(w) >= 1,
           NEW m \in 0..Len(text), Stands(text, edits, m, w, 1)
    PROVE  /\ RangeAt(m, w) \in Ranges(text) /\ Words(text, RangeAt(m, w)) = w
           /\ \A k \in m..(m + Len(w) - 1) : Starting(edits, k) = {}
<1>1. Len(w) \in Nat /\ Len(text) \in Nat
      OBVIOUS
<1>2. \A q \in 1..Len(w) : m + q - 1 < Len(text) /\ m + q - 1 + 1 = m + q
                           /\ text[m + q] = w[q] /\ Starting(edits, m + q - 1) = {}
      BY <1>1 DEF Stands
<1>3. m + Len(w) <= Len(text)
      BY <1>1, <1>2
<1>4. RangeAt(m, w) \in Ranges(text)
      BY <1>1, <1>3 DEF RangeAt, Ranges
<1> DEFINE r == RangeAt(m, w)
<1>5. r.start = m /\ r.end - r.start = Len(w)
      BY <1>1 DEF RangeAt
<1>6. /\ Words(text, r) \in Seq(S) /\ Len(Words(text, r)) = r.end - r.start
      /\ \A q \in 1..(r.end - r.start) : Words(text, r)[q] = text[r.start + q]
  <2> HIDE DEF r
  <2> QED BY <1>4, RangeWords DEF r
<1> HIDE DEF r
<1>7. Words(text, r) = w
  <2>1. Len(Words(text, r)) = Len(w) /\ \A q \in 1..Len(w) : Words(text, r)[q] = w[q]
        BY <1>2, <1>5, <1>6
  <2> QED BY <1>6, <2>1, SeqEqual
<1>8. ASSUME NEW k \in m..(m + Len(w) - 1) PROVE Starting(edits, k) = {}
  <2>1. k - m + 1 \in 1..Len(w) /\ m + (k - m + 1) - 1 = k
        BY <1>1
  <2> QED BY <1>2, <2>1
<1> QED BY <1>4, <1>7, <1>8 DEF r

\* What a text still holds after a rewriting, but for the pieces, it held before it, where
\* no edit starts.
LEMMA WordsKept ==
    ASSUME NEW S, NEW text \in Seq(S), NEW edits, EditsOf(text, edits),
           NEW piece, \A e \in edits : piece[e] \in S,
           NEW F, Visits(text, edits, F),
           NEW r \in Ranges(Rewritten(text, edits, piece)),
           NEW w, w = Words(Rewritten(text, edits, piece), r),
           \A q \in 1..Len(w), e \in edits : w[q] # piece[e]
    PROVE  /\ w \in Seq(S) /\ Len(w) >= 1
           /\ \E m \in F \cap (0..Len(text)) :
                  /\ RangeAt(m, w) \in Ranges(text) /\ Words(text, RangeAt(m, w)) = w
                  /\ \A k \in m..(m + Len(w) - 1) : Starting(edits, k) = {}
<1> DEFINE result == Rewritten(text, edits, piece)
<1>1. result \in Seq(S)
  <2>1. 0 \in 0..Len(text)
        OBVIOUS
  <2> QED BY <2>1, LeftValues, RewrittenLeft
<1> HIDE DEF result
<1>2. /\ r.start \in 0..Len(result) /\ r.end \in 0..Len(result) /\ r.start < r.end
      /\ w \in Seq(S) /\ Len(w) = r.end - r.start
      /\ \A q \in 1..(r.end - r.start) : w[q] = result[r.start + q]
      BY <1>1, RangeWords DEF result
<1>3. Len(result) \in Nat /\ r.start \in Nat /\ Len(w) >= 1
      BY <1>1, <1>2
<1>4. Found(result, r.start, w)
      BY <1>2, <1>3 DEF Found
<1>5. PICK m \in F \cap (0..Len(text)) : Stands(text, edits, m, w, 1)
      BY <1>2, <1>3, <1>4, OccurrenceKept DEF result
<1> QED BY <1>2, <1>3, <1>5, StandsWords

-----------------------------------------------------------------------------
(* normalize. *)

\* Among one owner, or one supported owner, normalize has its choice.
LEMMA ChoiceIsMarker ==
    ASSUME NEW text, NEW registry, DOMAIN registry \subseteq Identifier, NEW words
    PROVE  Choice(text, registry, words) \in Identifier \cup {Ambiguous}
<1> DEFINE owners == CalledBy(registry, words)
           supported == {p \in owners : Matches(text, registry[p].contacts) # {}}
<1>1. owners \subseteq Identifier /\ supported \subseteq Identifier
      BY DEF CalledBy
<1>2. Cardinality(owners) = 1 => The(owners) \in Identifier
      BY <1>1, TheOne
<1>3. Cardinality(supported) = 1 => The(supported) \in Identifier
      BY <1>1, TheOne
<1> HIDE DEF owners, supported
<1>4. Choice(text, registry, words) =
          CASE Cardinality(owners) = 1 -> The(owners)
            [] Cardinality(supported) = 1 -> The(supported)
            [] OTHER -> Ambiguous
      BY DEF Choice, owners, supported
<1> QED BY <1>2, <1>3, <1>4

\* No alias of anybody is left of what is normalized.
LEMMA NormalizeHides ==
    ASSUME NEW W, NEW text \in Seq(W), NEW registry, Rows(registry),
           NEW p \in DOMAIN registry
    PROVE  Matches(Normalize(text, registry).text, Aliases(registry[p])) = {}
<1> DEFINE forms == UNION {Aliases(registry[q]) : q \in DOMAIN registry}
           found == {Plain(r, "person", Choice(text, registry, Words(text, r))) :
                        r \in Matches(text, forms)}
           hints == [e \in found |-> e.hint]
           named == Rewritten(text, found, hints)
           contacts == Matches(named, Contact)
           markers == [r \in contacts |-> Removed]
           final == Rewritten(named, contacts, markers)
           S == W \cup Identifier \cup {Ambiguous, Removed}
<1>1. text \in Seq(S) /\ Len(text) \in Nat
      OBVIOUS
<1>2. Normalize(text, registry).text = final
      BY DEF Normalize
<1>3. \A a \in Aliases(registry[p]) :
          \A i \in DOMAIN a : a[i] \notin Identifier \cup {Ambiguous, Removed}
      BY MarkerAssumption DEF Rows, PersonRow, Aliases
<1>4. ASSUME NEW e \in found
      PROVE  /\ e.start \in Nat /\ e.end \in 0..Len(text) /\ e.start < e.end
             /\ e.hint \in Identifier \cup {Ambiguous}
  <2>1. PICK r \in Matches(text, forms) :
            e = Plain(r, "person", Choice(text, registry, Words(text, r)))
        OBVIOUS
  <2>2. r \in Ranges(text)
        BY DEF Matches
  <2>3. Choice(text, registry, Words(text, r)) \in Identifier \cup {Ambiguous}
        BY ChoiceIsMarker DEF Rows
  <2> QED BY <2>1, <2>2, <2>3 DEF Plain, Ranges
<1>5. ASSUME NEW r \in Matches(text, forms)
      PROVE  \E e \in found : e.start = r.start
  <2> DEFINE e == Plain(r, "person", Choice(text, registry, Words(text, r)))
  <2>1. e \in found /\ e.start = r.start
        BY DEF Plain
  <2> QED BY <2>1
<1> HIDE DEF found, forms
<1>6. EditsOf(text, found) /\ \A e \in found : hints[e] = e.hint /\ hints[e] \in S
      BY <1>4 DEF EditsOf
<1>7. named \in Seq(S)
  <2> HIDE DEF hints, S
  <2>1. 0 \in 0..Len(text)
        BY <1>1
  <2> QED BY <1>1, <1>6, <2>1, LeftValues, RewrittenLeft
<1>8. Visits(text, found, Nat)
  <2>1. \A i \in 0..Len(text) : Starting(found, i) # {} => Longest(found, i).end \in Nat
        BY <1>1, <1>6, LongestEnds
  <2> QED BY <2>1 DEF Visits
<1> HIDE DEF named
<1>9. \A r \in contacts : markers[r] = Removed /\ markers[r] \in S
      OBVIOUS
<1>10. EditsOf(named, contacts)
       BY DEF EditsOf, Matches, Ranges
<1>11. Visits(named, contacts, Nat)
  <2> HIDE DEF contacts
  <2>0. Len(named) \in Nat
        BY <1>7
  <2>1. \A i \in 0..Len(named) : Starting(contacts, i) # {} => Longest(contacts, i).end \in Nat
        BY <2>0, <1>10, LongestEnds
  <2> QED BY <2>1 DEF Visits
<1> HIDE DEF contacts, markers, hints
<1>12. ASSUME NEW r \in Matches(final, Aliases(registry[p])) PROVE FALSE
  <2> DEFINE w == Words(final, r)
  <2>1. r \in Ranges(final) /\ w \in Aliases(registry[p])
        BY DEF Matches
  <2> HIDE DEF w
  <2>2. w \in Name \cup Contact
        BY <2>1 DEF Rows, PersonRow, Aliases
  <2>3. \A i \in 1..Len(w) : w[i] \notin Identifier \cup {Ambiguous, Removed}
    <3>1. DOMAIN w = 1..Len(w)
          BY <2>2, TextAssumption
    <3> QED BY <1>3, <2>1, <3>1
  <2>4. /\ w \in Seq(S)
        /\ \E m \in Nat : RangeAt(m, w) \in Ranges(named) /\ Words(named, RangeAt(m, w)) = w
    <3>1. \A q \in 1..Len(w), e \in contacts : w[q] # markers[e]
          BY <1>9, <2>3
    <3> HIDE DEF S
    <3> QED BY <1>7, <1>9, <1>10, <1>11, <2>1, <3>1, WordsKept DEF w
  <2>5. PICK m \in Nat : RangeAt(m, w) \in Ranges(named) /\ Words(named, RangeAt(m, w)) = w
        BY <2>4
  <2>6. PICK k \in Nat : /\ RangeAt(k, w) \in Ranges(text) /\ Words(text, RangeAt(k, w)) = w
                         /\ \A i \in k..(k + Len(w) - 1) : Starting(found, i) = {}
                         /\ Len(w) >= 1
    <3>1. \A q \in 1..Len(w), e \in found : w[q] # hints[e]
          BY <1>4, <1>6, <2>3
    <3> HIDE DEF S
    <3> QED BY <1>1, <1>6, <1>8, <2>5, <3>1, WordsKept DEF named
  <2>7. RangeAt(k, w) \in Matches(text, forms)
        BY <2>1, <2>6 DEF Matches, forms
  <2>8. PICK e \in found : e.start = k
        BY <1>5, <2>7 DEF RangeAt
  <2>9. k \in k..(k + Len(w) - 1)
    <3>1. Len(w) \in Nat
          BY <2>4
    <3> QED BY <2>6, <3>1
  <2> QED BY <2>6, <2>8, <2>9 DEF Starting
<1> QED BY <1>2, <1>12

-----------------------------------------------------------------------------
(* What a pass hides. *)

\* In a text every name that is one person's in a registry is inside of a range that the
\* plan edits, or of what was decided to be a system code.
Hides(text, plan, began, registry, resolutions) ==
    \A p \in began :
        CalledBy(registry, registry[p].display_name) = {p} =>
            \A q \in Matches(text, {registry[p].display_name}) :
                \/ \E x \in resolutions : x.decision = "system_code" /\ Covers(x, q)
                \/ \E e \in plan.entities : RangeOf(e) \in plan.edits /\ Covers(e, q)

\* Of the entities for or around a range a longest is not collapsed.
LEMMA CollapsedCovers ==
    ASSUME NEW text, Len(text) \in Nat, NEW entities,
           \A e \in entities : e.start \in Nat /\ e.end \in 0..Len(text),
           NEW q, NEW d \in entities, q.start \in Nat, q.end \in Nat, q.start < q.end,
           Covers(d, q)
    PROVE  \E e \in Collapsed(entities) : Covers(e, q)
<1> DEFINE around == {e \in entities : Covers(e, q)}
           length(e) == e.end - e.start
           D == {Len(text) - length(e) : e \in around}
<1>1. ASSUME NEW e \in around
      PROVE  /\ e.start \in Nat /\ e.end \in 0..Len(text)
             /\ length(e) \in 0..Len(text) /\ Len(text) - length(e) \in Nat
             /\ e.start <= q.start /\ q.end <= e.end
      BY DEF Covers
<1>2. D \in SUBSET Nat /\ D # {}
      BY <1>1
<1>3. PICK m \in D : \A k \in D : m <= k
      BY <1>2, Least
<1>4. PICK e \in around : m = Len(text) - length(e)
      OBVIOUS
<1>5. ASSUME NEW f \in entities, RangeOf(f) # RangeOf(e), Covers(f, e)
      PROVE  FALSE
  <2>1. f.start \in Nat /\ f.end \in 0..Len(text) /\ f.start <= e.start /\ e.end <= f.end
        BY <1>5 DEF Covers
  <2>2. f.start # e.start \/ f.end # e.end
    <3> SUFFICES ASSUME f.start = e.start, f.end = e.end PROVE FALSE
        OBVIOUS
    <3>1. RangeOf(f) = RangeOf(e)
          BY DEF RangeOf
    <3> QED BY <1>5, <3>1
  <2>3. f \in around
    <3>1. /\ e.start \in Nat /\ e.end \in 0..Len(text)
          /\ e.start <= q.start /\ q.end <= e.end
          BY <1>1
    <3>2. f.start <= q.start /\ q.end <= f.end
          BY <2>1, <3>1
    <3> QED BY <3>2 DEF Covers
  <2>4. m <= Len(text) - length(f)
    <3>1. Len(text) - length(f) \in D
          BY <2>3
    <3> HIDE DEF D
    <3> QED BY <1>3, <3>1
  <2>5. f.end - f.start > e.end - e.start
    <3>1. e.start \in Nat /\ e.end \in 0..Len(text)
          BY <1>1
    <3> QED BY <2>1, <2>2, <3>1
  <2>6. Len(text) - (e.end - e.start) <= Len(text) - (f.end - f.start)
        BY <1>4, <2>4
  <2>7. /\ e.end - e.start \in 0..Len(text) /\ f.end - f.start \in 0..Len(text)
        BY <1>1, <2>3
  <2> QED BY <2>5, <2>6, <2>7
<1>6. e \in Collapsed(entities)
      BY <1>4, <1>5 DEF Collapsed
<1> QED BY <1>4, <1>6

\* Of two entities for a range one is kept.
LEMMA DeduplicatedCovers ==
    ASSUME NEW first, NEW second, NEW d \in first \cup second
    PROVE  \E e \in Deduplicated(first, second) : RangeOf(e) = RangeOf(d)
<1> DEFINE better(e) == {f \in second : RangeOf(f) = RangeOf(e) /\ f.hint # None /\ e.hint = None}
           added == {f \in second : RangeOf(f) \notin {RangeOf(e) : e \in first}}
           kept(e) == IF better(e) = {} THEN e ELSE The(better(e))
           of(r) == The({f \in added : RangeOf(f) = r})
<1>1. Deduplicated(first, second) =
          {kept(e) : e \in first} \cup {of(r) : r \in {RangeOf(f) : f \in added}}
      BY DEF Deduplicated
<1>2. ASSUME NEW e \in first PROVE RangeOf(kept(e)) = RangeOf(e)
  <2>1. better(e) # {} => The(better(e)) \in better(e)
        BY TheOne
  <2> QED BY <2>1
<1>3. ASSUME NEW f \in added
      PROVE  RangeOf(of(RangeOf(f))) = RangeOf(f)
  <2>1. of(RangeOf(f)) \in {g \in added : RangeOf(g) = RangeOf(f)}
        BY TheOne
  <2> QED BY <2>1
<1> HIDE DEF kept, of
<1>4. CASE d \in first
      BY <1>1, <1>2, <1>4
<1>5. CASE d \in added
  <2>1. of(RangeOf(d)) \in Deduplicated(first, second)
        BY <1>1, <1>5
  <2> QED BY <1>3, <1>5, <2>1
<1>6. CASE d \notin first /\ d \notin added
  <2>1. PICK e \in first : RangeOf(d) = RangeOf(e)
        BY <1>6
  <2> QED BY <1>1, <1>2, <2>1
<1> QED BY <1>4, <1>5, <1>6

\* Where a name is one person's, it is nobody else's name.
LEMMA SoleName ==
    ASSUME NEW registry, Rows(registry), NEW p \in DOMAIN registry,
           CalledBy(registry, registry[p].display_name) = {p}
    PROVE  {q \in DOMAIN registry : registry[q].display_name = registry[p].display_name} = {p}
BY DEF CalledBy, Aliases

\* One pass hides whoever it is given: a name is found in the text, and what covers it is
\* edited unless it was decided to be a system code.
LEMMA PassHides ==
    ASSUME NEW text, Len(text) \in Nat, NEW registry, Rows(registry), NEW resolutions,
           NEW plan \in Plans(text, registry, resolutions)
    PROVE  Hides(text, plan, DOMAIN registry, registry, resolutions)
<1>1. PICK L \in Labels(text, registry) :
          /\ plan.entities = Entities(text, L, registry)
          /\ plan.edits = Edits(plan.entities, resolutions)
      BY DEF Plans
<1> DEFINE known == Known(text, registry)
           found == Deterministic(text, L)
           all == Deduplicated(found, known)
<1>2. ASSUME NEW p \in DOMAIN registry, CalledBy(registry, registry[p].display_name) = {p},
             NEW q \in Matches(text, {registry[p].display_name})
      PROVE  \/ \E x \in resolutions : x.decision = "system_code" /\ Covers(x, q)
             \/ \E e \in plan.entities : RangeOf(e) \in plan.edits /\ Covers(e, q)
  <2> DEFINE name == registry[p].display_name
             bound == Plain(q, "person", The(CalledBy(registry, Words(text, q))))
  <2>1. q \in Ranges(text) /\ Words(text, q) = name
        BY DEF Matches
  <2>2. q.start \in Nat /\ q.end \in Nat /\ q.start < q.end
        BY <2>1 DEF Ranges
  <2>3. bound \in known
    <3>1. q \in Matches(text, {registry[x].display_name : x \in DOMAIN registry})
          BY <2>1 DEF Matches
    <3>2. {x \in DOMAIN registry : registry[x].display_name = Words(text, q)} = {p}
          BY <1>2, <2>1, SoleName
    <3>3. Cardinality({x \in DOMAIN registry : registry[x].display_name = Words(text, q)}) = 1
          BY <3>2, FS_Singleton
    <3> DEFINE sole == {r \in Matches(text, {registry[x].display_name : x \in DOMAIN registry}) :
                           Cardinality({x \in DOMAIN registry :
                                           registry[x].display_name = Words(text, r)}) = 1}
    <3>4. q \in sole
          BY <3>1, <3>3
    <3>5. {Plain(r, "person", The(CalledBy(registry, Words(text, r)))) : r \in sole} \subseteq known
          BY DEF Known
    <3> HIDE DEF sole, known
    <3> QED BY <3>4, <3>5
  <2>4. bound.start = q.start /\ bound.end = q.end
        BY DEF Plain
  <2> HIDE DEF bound
  <2>5. PICK d \in all : RangeOf(d) = RangeOf(bound)
    <3> HIDE DEF known, found
    <3>1. bound \in found \cup known
          BY <2>3
    <3> QED BY <3>1, DeduplicatedCovers
  <2>6. Covers(d, q)
    <3>1. d.start = q.start /\ d.end = q.end
          BY <2>4, <2>5 DEF RangeOf
    <3> QED BY <2>2, <3>1 DEF Covers
  <2>7. \A e \in all : e.start \in Nat /\ e.end \in 0..Len(text)
        BY JoinedRead DEF Joined, ReadAll, Read, EntityType
  <2> HIDE DEF all
  <2>8. PICK c \in Collapsed(all) : Covers(c, q)
        BY <2>2, <2>6, <2>7, CollapsedCovers
  <2> DEFINE e == Bound(text, c, registry)
  <2>9. e \in plan.entities
        BY <1>1 DEF Entities, all
  <2>10. RangeOf(e) = RangeOf(c) /\ Covers(e, q)
    <3>1. e.start = c.start /\ e.end = c.end
          BY DEF Bound
    <3> QED BY <2>8, <3>1 DEF RangeOf, Covers
  <2> HIDE DEF e
  <2>11. CASE Exempt(resolutions, e)
    <3>1. PICK x \in resolutions : RangeOf(x) = RangeOf(e) /\ x.decision = "system_code"
          BY <2>11 DEF Exempt
    <3>2. x.start = e.start /\ x.end = e.end
          BY <3>1 DEF RangeOf
    <3> QED BY <2>10, <3>1, <3>2 DEF Covers
  <2>12. CASE ~Exempt(resolutions, e)
    <3>1. RangeOf(e) \in plan.edits
          BY <1>1, <2>9, <2>12 DEF Edits
    <3> QED BY <2>9, <2>10, <3>1
  <2> QED BY <2>11, <2>12
<1> QED BY <1>2 DEF Hides

\* What one registry tells of people the other tells, too.
Extends(later, registry) ==
    /\ DOMAIN registry \subseteq DOMAIN later
    /\ \A p \in DOMAIN registry : later[p].display_name = registry[p].display_name

\* More edits hide no less, be it for fewer people.
LEMMA HidesMore ==
    ASSUME NEW text, NEW plan, NEW began, NEW registry, NEW resolutions,
           Hides(text, plan, began, registry, resolutions),
           NEW other, plan.edits \subseteq other.edits,
           \A e \in plan.entities : \E f \in other.entities : RangeOf(f) = RangeOf(e),
           NEW fewer \in SUBSET began, NEW more, resolutions \subseteq more
    PROVE  Hides(text, other, fewer, registry, more)
<1> SUFFICES ASSUME NEW p \in fewer, CalledBy(registry, registry[p].display_name) = {p},
                    NEW q \in Matches(text, {registry[p].display_name})
             PROVE  \/ \E x \in more : x.decision = "system_code" /\ Covers(x, q)
                    \/ \E e \in other.entities : RangeOf(e) \in other.edits /\ Covers(e, q)
    BY DEF Hides
<1>1. \/ \E x \in resolutions : x.decision = "system_code" /\ Covers(x, q)
      \/ \E e \in plan.entities : RangeOf(e) \in plan.edits /\ Covers(e, q)
      BY DEF Hides
<1>2. ASSUME NEW e \in plan.entities, RangeOf(e) \in plan.edits, Covers(e, q)
      PROVE  \E f \in other.entities : RangeOf(f) \in other.edits /\ Covers(f, q)
  <2>1. PICK f \in other.entities : RangeOf(f) = RangeOf(e)
        OBVIOUS
  <2>2. f.start = e.start /\ f.end = e.end
        BY <2>1 DEF RangeOf
  <2> QED BY <1>2, <2>1, <2>2 DEF Covers
<1> QED BY <1>1, <1>2

\* Whose name is nobody else's in a later registry had it alone before.
LEMMA SoleBefore ==
    ASSUME NEW registry, Rows(registry), NEW later, Rows(later), Extends(later, registry),
           NEW p \in DOMAIN registry, CalledBy(later, later[p].display_name) = {p}
    PROVE  /\ CalledBy(registry, registry[p].display_name) = {p}
           /\ later[p].display_name = registry[p].display_name
<1>1. later[p].display_name = registry[p].display_name
      BY DEF Extends
<1> DEFINE name == registry[p].display_name
<1>2. name \in Name /\ \A q \in DOMAIN registry : registry[q].contacts \subseteq Contact
      BY DEF Rows, PersonRow
<1>3. p \in CalledBy(registry, name)
      BY DEF CalledBy, Aliases
<1>4. ASSUME NEW q \in CalledBy(registry, name)
      PROVE  q = p
  <2>1. q \in DOMAIN registry /\ registry[q].display_name = name
        BY <1>2, TextAssumption DEF CalledBy, Aliases
  <2>2. q \in DOMAIN later /\ later[q].display_name = name
        BY <2>1 DEF Extends
  <2>3. q \in CalledBy(later, name)
        BY <2>2 DEF CalledBy, Aliases
  <2> QED BY <1>1, <2>3
<1> QED BY <1>1, <1>3, <1>4

\* What a registry tells is hidden if a later one tells it, too.
LEMMA HidesLater ==
    ASSUME NEW text, NEW plan, NEW registry, Rows(registry), NEW later, Rows(later),
           Extends(later, registry), NEW began \in SUBSET DOMAIN registry, NEW resolutions,
           Hides(text, plan, began, registry, resolutions)
    PROVE  Hides(text, plan, began, later, resolutions)
<1> SUFFICES ASSUME NEW p \in began, CalledBy(later, later[p].display_name) = {p}
             PROVE  /\ CalledBy(registry, registry[p].display_name) = {p}
                    /\ later[p].display_name = registry[p].display_name
    BY DEF Hides
<1>1. p \in DOMAIN registry
      OBVIOUS
<1> QED BY <1>1, SoleBefore

\* Registering proposals edits what the plan edits and renames nobody.
LEMMA RegisteredKeeps ==
    ASSUME NEW text, NEW plan, PlanOf(text, plan), NEW registry, Rows(registry)
    PROVE  LET result == Registered(text, plan, registry)
           IN  /\ result.plan.edits = plan.edits
               /\ \A e \in plan.entities :
                      \E f \in result.plan.entities : RangeOf(f) = RangeOf(e)
               /\ Extends(result.people, registry)
<1> DEFINE proposed == {Words(text, e) : e \in {f \in plan.entities : IsProposal(f)}}
           full     == {w \in proposed : IsFull(w)}
           fullOf(w) == {f \in full : w \in References(f)}
           hint     == [w \in proposed |->
                           IF ~IsFull(w) /\ Cardinality(fullOf(w)) = 1 THEN The(fullOf(w)) ELSE w]
           found(W) == {[hint |-> hint[w], words |-> w] : w \in W}
           first    == found({w \in full : CalledBy(registry, w) = {}})
           named    == WithPeople(registry, first)
           second   == found({w \in proposed : Named(named, w) = {}})
           all      == WithPeople(named, second)
           identity(w) == CASE Named(named, w) = {} -> Proposed[hint[w]]
                            [] Cardinality(Named(named, w)) = 1 -> The(Named(named, w))
                            [] OTHER -> hint[w]
           bind(e)  == IF IsProposal(e) THEN [e EXCEPT !.hint = identity(Words(text, e))] ELSE e
           entities == {bind(e) : e \in plan.entities}
           contacts(p) == {Words(text, e) : e \in {f \in entities : f.kind = "contact" /\ f.hint = p}}
           later    == [p \in DOMAIN all |-> [all[p] EXCEPT !.contacts = @ \cup contacts(p)]]
           result   == Registered(text, plan, registry)
<1>1. result.plan = [plan EXCEPT !.entities = entities] /\ result.people = later
      BY DEF Registered
<1>2. plan \in PlanType
      BY DEF PlanOf
<1>3. ASSUME NEW e \in plan.entities
      PROVE  bind(e) \in entities /\ RangeOf(bind(e)) = RangeOf(e)
  <2> DEFINE v == identity(Words(text, e))
  <2>1. bind(e) = IF IsProposal(e) THEN [e EXCEPT !.hint = v] ELSE e
        OBVIOUS
  <2>2. e \in EntityType
        BY <1>2 DEF PlanType
  <2>3. bind(e) \in entities
        OBVIOUS
  <2> HIDE DEF v, bind, entities
  <2>4. bind(e).start = e.start /\ bind(e).end = e.end
        BY <2>1, <2>2 DEF EntityType
  <2> QED BY <2>3, <2>4 DEF RangeOf
<1>4. /\ DOMAIN later = DOMAIN all
      /\ \A p \in DOMAIN all : later[p] = [all[p] EXCEPT !.contacts = @ \cup contacts(p)]
      OBVIOUS
<1>5. \A r, f : /\ DOMAIN r \subseteq DOMAIN WithPeople(r, f)
                /\ \A p \in DOMAIN r : WithPeople(r, f)[p] = r[p]
      BY DEF WithPeople
<1>6. /\ DOMAIN registry \subseteq DOMAIN all
      /\ \A p \in DOMAIN registry : all[p] = registry[p]
  <2> HIDE DEF first, second
  <2>1. DOMAIN registry \subseteq DOMAIN named /\ \A p \in DOMAIN registry : named[p] = registry[p]
        BY <1>5
  <2>2. DOMAIN named \subseteq DOMAIN all /\ \A p \in DOMAIN named : all[p] = named[p]
        BY <1>5
  <2> HIDE DEF named, all
  <2> QED BY <2>1, <2>2
<1> HIDE DEF bind, entities, contacts, later, all
<1>7. \A p \in DOMAIN registry : later[p].display_name = registry[p].display_name
  <2> SUFFICES ASSUME NEW p \in DOMAIN registry
               PROVE  later[p].display_name = registry[p].display_name
      OBVIOUS
  <2>1. registry[p] \in PersonRow
        BY DEF Rows
  <2>2. later[p] = [registry[p] EXCEPT !.contacts = @ \cup contacts(p)]
        BY <1>4, <1>6
  <2> QED BY <2>1, <2>2 DEF PersonRow
<1>8. Extends(result.people, registry)
      BY <1>1, <1>4, <1>6, <1>7 DEF Extends
<1> HIDE DEF result
<1>9. result.plan.edits = plan.edits /\ result.plan.entities = entities
      BY <1>1, <1>2 DEF PlanType
<1> QED BY <1>3, <1>8, <1>9 DEF result

\* What a worker makes of a text in the second round or later hides whom it has looked up.
LEMMA PassesHide ==
    ASSUME NEW text, Len(text) \in Nat, NEW w, Rows(w.people), w.round > 0,
           NEW pass \in Passes(w, text)
    PROVE  Hides(text, pass, DOMAIN w.people, w.people, w.resolutions[w.at])
<1> DEFINE resolutions == w.resolutions[w.at]
           new == {[entities |-> p.entities, edits |-> p.edits, revision |-> w.revision] :
                      p \in Plans(text, w.people, resolutions)}
           previous == w.plans[w.at]
<1>1. PICK n \in new : pass = Merged(previous, n)
      BY DEF Passes
<1>2. PICK p \in Plans(text, w.people, resolutions) :
          n = [entities |-> p.entities, edits |-> p.edits, revision |-> w.revision]
      OBVIOUS
<1> HIDE DEF new, previous, resolutions
<1>3. Hides(text, p, DOMAIN w.people, w.people, resolutions)
      BY PassHides
<1>4. n.entities = p.entities /\ n.edits = p.edits
      BY <1>2
<1>5. p.entities \subseteq pass.entities /\ p.edits \subseteq pass.edits
  <2> DEFINE older == {e \in previous.entities :
                          RangeOf(e) \notin {RangeOf(f) : f \in n.entities}}
  <2>1. pass = [n EXCEPT !.entities = @ \cup older, !.edits = @ \cup previous.edits]
        BY <1>1 DEF Merged
  <2> HIDE DEF older
  <2>2. pass.entities = n.entities \cup older /\ pass.edits = n.edits \cup previous.edits
        BY <1>2, <2>1
  <2> QED BY <1>4, <2>2
<1>6. Hides(text, pass, DOMAIN w.people, w.people, resolutions)
      BY <1>3, <1>5, HidesMore
<1> QED BY <1>6 DEF resolutions

-----------------------------------------------------------------------------
(* The invariant of what is hidden. *)

\* A plan of the present generation does so for its record.
HidesNow(r, plan, began) ==
    plan.revision = privacy_generation => Hides(Text[r], plan, began, people, Of(r))

\* A worker that looks and plans: from the second round on, each record that was planned in
\* it, or in an earlier one, is hidden.
Watches(j, w) ==
    /\ w.began \subseteq DOMAIN people
    /\ \A i \in 1..Len(RecordsOf[j]) : w.resolutions[i] \subseteq Of(RecordsOf[j][i])
    /\ \A i \in 1..Len(w.plans) :
           w.round > 1 \/ (w.round = 1 /\ i < w.at) => HidesNow(RecordsOf[j][i], w.plans[i], w.began)
    /\ w.phase = "plan" =>
           /\ w.began \subseteq DOMAIN w.people
           /\ w.revision = privacy_generation => Extends(people, w.people)

\* A worker that persists: each record is.
Finishes(j, w) ==
    /\ w.began \subseteq DOMAIN people
    /\ \A i \in 1..Len(w.plans) : HidesNow(RecordsOf[j][i], w.plans[i], w.began)

\* A worker of a running upload, or none.
WorkerHides(j) ==
    /\ worker[j] # Idle => job[j] = "running"
    /\ worker[j].phase \in {"look", "plan"} => Watches(j, worker[j])
    /\ worker[j].phase = "persist" => Finishes(j, worker[j])

\* A saved plan.
PlanHides(r) ==
    privacy_plans[r] # None =>
        /\ privacy_plans[r].began \subseteq DOMAIN people
        /\ HidesNow(r, privacy_plans[r], privacy_plans[r].began)

\* An upload that is reviewed.
UploadHides(j) ==
    job[j] = "privacy_ready" =>
        \A i \in 1..Len(RecordsOf[j]) :
            LET r == RecordsOf[j][i]
            IN  Released(r) => privacy_plans[r] # None /\ HiddenIn(r, record[r].text, privacy_plans[r])

\* The records have their two fields.
Shaped == DOMAIN record = Record /\ \A r \in Record : DOMAIN record[r] = {"quarantined", "text"}

\* The invariant that KnownNamesHidden needs.
HiddenInv ==
    /\ \A j \in Upload : WorkerHides(j) /\ UploadHides(j)
    /\ \A r \in Record : PlanHides(r)
    /\ Shaped

\* What every step does to the registry and to what administrators decided: in a generation
\* people are only added.
Progress ==
    /\ privacy_generation <= privacy_generation'
    /\ DOMAIN people \subseteq DOMAIN people'
    /\ privacy_generation' = privacy_generation => Extends(people', people)
    /\ privacy_resolutions \subseteq privacy_resolutions'

\* A plan hides whoever it has to after the step.
HidesNext(r, plan, began) ==
    plan.revision = privacy_generation' => Hides(Text[r], plan, began, people', Of(r)')

\* A plan that hides the people of the present generation still does.
LEMMA StillHidesNow ==
    ASSUME Rows(people), Rows(people'), Progress,
           privacy_generation \in Nat, privacy_generation' \in Nat,
           NEW r, NEW plan, plan.revision \in 1..privacy_generation,
           NEW began \in SUBSET DOMAIN people, HidesNow(r, plan, began)
    PROVE  HidesNext(r, plan, began)
<1> SUFFICES ASSUME plan.revision = privacy_generation'
             PROVE  Hides(Text[r], plan, began, people', Of(r)')
    BY DEF HidesNext
<1>1. privacy_generation' = privacy_generation /\ plan.revision = privacy_generation
      BY DEF Progress
<1>2. Hides(Text[r], plan, began, people, Of(r)) /\ Extends(people', people)
      BY <1>1 DEF HidesNow, Progress
<1>3. Of(r) \subseteq Of(r)'
      BY DEF Of, Progress
<1> DEFINE later == people'
           more == Of(r)'
<1>4. Rows(later) /\ Extends(later, people) /\ Of(r) \subseteq more
      BY <1>2, <1>3
<1> HIDE DEF later, more
<1>5. Hides(Text[r], plan, began, later, Of(r))
      BY <1>2, <1>4, HidesLater
<1>6. Hides(Text[r], plan, began, later, more)
      BY <1>4, <1>5, HidesMore
<1> QED BY <1>6 DEF later, more

\* What is known of any step.
Ahead ==
    /\ Rows(people) /\ Rows(people') /\ Progress
    /\ privacy_generation \in Nat /\ privacy_generation' \in Nat

\* A worker that does nothing.
LEMMA WorkerStillHides ==
    ASSUME Ahead, NEW j \in Upload, Keeps(j, worker[j], privacy_generation),
           WorkerHides(j), worker'[j] = worker[j], job'[j] = job[j]
    PROVE  WorkerHides(j)'
<1> DEFINE w == worker[j]
<1>1. /\ DOMAIN people \subseteq DOMAIN people' /\ privacy_generation <= privacy_generation'
      /\ privacy_resolutions \subseteq privacy_resolutions' /\ Keeps(j, w, privacy_generation)
      BY DEF Ahead, Progress
<1>2. \A r, plan, began :
          /\ plan.revision \in 1..privacy_generation /\ began \in SUBSET DOMAIN people
          /\ HidesNow(r, plan, began)
          => HidesNext(r, plan, began)
      BY StillHidesNow DEF Ahead
<1>3. ASSUME w.phase \in {"look", "plan", "persist"}
      PROVE  \A i \in 1..Len(w.plans) : w.plans[i].revision \in 1..privacy_generation
  <2> HIDE DEF w
  <2>1. PlansOf(j, w.plans, privacy_generation)
        BY <1>1, <1>3 DEF Keeps, Idle, Planning, Persisting
  <2> QED BY <2>1 DEF PlansOf
<1>4. worker'[j] # Idle => job'[j] = "running"
      BY DEF WorkerHides
<1>5. CASE w.phase \in {"look", "plan"}
  <2>1. Watches(j, w)
        BY <1>5 DEF WorkerHides
  <2>2. w.began \subseteq DOMAIN people'
        BY <1>1, <2>1 DEF Watches
  <2>3. \A i \in 1..Len(RecordsOf[j]) : w.resolutions[i] \subseteq Of(RecordsOf[j][i])'
    <3>1. \A r : Of(r) \subseteq Of(r)'
          BY <1>1 DEF Of
    <3> QED BY <2>1, <3>1 DEF Watches
  <2>4. \A i \in 1..Len(w.plans) :
            w.round > 1 \/ (w.round = 1 /\ i < w.at) => HidesNext(RecordsOf[j][i], w.plans[i], w.began)
    <3> HIDE DEF w
    <3> QED BY <1>2, <1>3, <1>5, <2>1 DEF Watches
  <2>5. ASSUME w.phase = "plan"
        PROVE  /\ w.began \subseteq DOMAIN w.people
               /\ w.revision = privacy_generation' => Extends(people', w.people)
    <3>1. w.revision \in 1..privacy_generation
      <4> HIDE DEF w
      <4> QED BY <1>1, <2>5 DEF Keeps, Idle, Planning, Persisting
    <3>2. /\ w.began \subseteq DOMAIN w.people
          /\ w.revision = privacy_generation => Extends(people, w.people)
      <4> HIDE DEF w
      <4> QED BY <2>1, <2>5 DEF Watches
    <3>3. ASSUME w.revision = privacy_generation'
          PROVE  Extends(people', w.people)
      <4>1. privacy_generation' = privacy_generation
            BY <1>1, <3>1, <3>3 DEF Ahead
      <4>2. Extends(people', people) /\ Extends(people, w.people)
            BY <3>2, <3>3, <4>1 DEF Ahead, Progress
      <4> HIDE DEF w
      <4> QED BY <4>2 DEF Extends
    <3> QED BY <3>2, <3>3
  <2>6. Watches(j, worker[j])'
        BY <2>2, <2>3, <2>4, <2>5 DEF Watches, HidesNow, HidesNext
  <2> QED BY <1>4, <1>5, <2>6 DEF WorkerHides
<1>6. CASE w.phase = "persist"
  <2>1. Finishes(j, w)
        BY <1>6 DEF WorkerHides
  <2>2. /\ w.began \subseteq DOMAIN people'
        /\ \A i \in 1..Len(w.plans) : HidesNext(RecordsOf[j][i], w.plans[i], w.began)
    <3> HIDE DEF w
    <3> QED BY <1>1, <1>2, <1>3, <1>6, <2>1 DEF Finishes
  <2>3. Finishes(j, worker[j])'
        BY <2>2 DEF Finishes, HidesNow, HidesNext
  <2> QED BY <1>4, <1>6, <2>3 DEF WorkerHides
<1>7. CASE w.phase \notin {"look", "plan", "persist"}
      BY <1>4, <1>7 DEF WorkerHides
<1> QED BY <1>5, <1>6, <1>7

\* A saved plan that stays, or goes.
LEMMA PlanStillHides ==
    ASSUME Ahead, NEW r \in Record, SavedFor(r, privacy_plans[r], privacy_generation),
           PlanHides(r), privacy_plans'[r] = None \/ privacy_plans'[r] = privacy_plans[r]
    PROVE  PlanHides(r)'
<1> DEFINE plan == privacy_plans[r]
<1> SUFFICES ASSUME privacy_plans'[r] # None
             PROVE  /\ privacy_plans'[r].began \subseteq DOMAIN people'
                    /\ HidesNow(r, privacy_plans[r], privacy_plans[r].began)'
    BY DEF PlanHides
<1>1. plan # None /\ privacy_plans'[r] = plan
      OBVIOUS
<1>2. /\ plan.began \subseteq DOMAIN people /\ HidesNow(r, plan, plan.began)
      /\ plan.revision \in 1..privacy_generation
      BY <1>1 DEF PlanHides, SavedFor
<1>3. DOMAIN people \subseteq DOMAIN people'
      BY DEF Ahead, Progress
<1>4. HidesNext(r, plan, plan.began)
  <2> DEFINE began == plan.began
  <2>1. began \in SUBSET DOMAIN people /\ HidesNow(r, plan, began)
        BY <1>2
  <2> HIDE DEF plan, began
  <2>2. HidesNext(r, plan, began)
        BY <1>2, <2>1, StillHidesNow DEF Ahead
  <2> QED BY <2>2 DEF began
<1>5. HidesNow(r, privacy_plans[r], privacy_plans[r].began)'
      BY <1>1, <1>4 DEF HidesNow, HidesNext
<1> QED BY <1>1, <1>2, <1>3, <1>5

\* A text that stays hides whom it did.
LEMMA StillHiddenIn ==
    ASSUME Ahead, NEW r, NEW text, NEW plan, plan.began \subseteq DOMAIN people,
           plan.revision \in 1..privacy_generation, HiddenIn(r, text, plan)
    PROVE  plan.revision = privacy_generation' =>
               \A p \in plan.began :
                   /\ CalledBy(people', people'[p].display_name) = {p}
                   /\ ~Coded(r, people[p].display_name)'
                   => Matches(text, {people'[p].display_name}) = {}
<1> SUFFICES ASSUME plan.revision = privacy_generation', NEW p \in plan.began,
                    CalledBy(people', people'[p].display_name) = {p},
                    ~Coded(r, people[p].display_name)'
             PROVE  Matches(text, {people'[p].display_name}) = {}
    OBVIOUS
<1>1. privacy_generation' = privacy_generation /\ plan.revision = privacy_generation
      BY DEF Ahead, Progress
<1>2. Rows(people) /\ Rows(people') /\ Extends(people', people) /\ p \in DOMAIN people
      BY <1>1 DEF Ahead, Progress
<1>3. /\ CalledBy(people, people[p].display_name) = {p}
      /\ people'[p].display_name = people[p].display_name
  <2> DEFINE later == people'
  <2>1. Rows(later) /\ Extends(later, people) /\ CalledBy(later, later[p].display_name) = {p}
        BY <1>2
  <2> HIDE DEF later
  <2>2. /\ CalledBy(people, people[p].display_name) = {p}
        /\ later[p].display_name = people[p].display_name
        BY <1>2, <2>1, SoleBefore
  <2> QED BY <2>2 DEF later
<1>4. ~Coded(r, people[p].display_name)
  <2>1. Of(r) \subseteq Of(r)'
        BY DEF Of, Ahead, Progress
  <2> QED BY <1>3, <2>1 DEF Coded
<1> QED BY <1>1, <1>3, <1>4 DEF HiddenIn

\* An upload whose records are not released by the step.
LEMMA UploadStillHides ==
    ASSUME Ahead, NEW j \in Upload, UploadHides(j),
           job'[j] = "privacy_ready" => job[j] = "privacy_ready",
           \A i \in 1..Len(RecordsOf[j]) :
               LET r == RecordsOf[j][i]
               IN  /\ SavedFor(r, privacy_plans[r], privacy_generation) /\ PlanHides(r)
                   /\ Released(r)' =>
                          /\ Released(r) /\ record'[r].text = record[r].text
                          /\ privacy_plans'[r] = privacy_plans[r]
    PROVE  UploadHides(j)'
<1> SUFFICES ASSUME job'[j] = "privacy_ready", NEW i \in 1..Len(RecordsOf[j]),
                    Released(RecordsOf[j][i])'
             PROVE  /\ privacy_plans'[RecordsOf[j][i]] # None
                    /\ HiddenIn(RecordsOf[j][i], record[RecordsOf[j][i]].text,
                                privacy_plans[RecordsOf[j][i]])'
    BY DEF UploadHides
<1> DEFINE r == RecordsOf[j][i]
           plan == privacy_plans[r]
           text == record[r].text
<1>1. /\ Released(r) /\ record'[r].text = text /\ privacy_plans'[r] = plan
      /\ SavedFor(r, plan, privacy_generation) /\ PlanHides(r)
      OBVIOUS
<1>2. plan # None /\ HiddenIn(r, text, plan)
      BY <1>1 DEF UploadHides
<1>3. plan.began \subseteq DOMAIN people /\ plan.revision \in 1..privacy_generation
      BY <1>1, <1>2 DEF SavedFor, PlanHides
<1>4. plan.revision = privacy_generation' =>
          \A p \in plan.began :
              /\ CalledBy(people', people'[p].display_name) = {p}
              /\ ~Coded(r, people[p].display_name)'
              => Matches(text, {people'[p].display_name}) = {}
  <2> HIDE DEF plan, text, r
  <2> QED BY <1>2, <1>3, StillHiddenIn
<1>5. HiddenIn(r, record[r].text, privacy_plans[r])'
      BY <1>1, <1>4 DEF HiddenIn
<1> QED BY <1>1, <1>2, <1>5

-----------------------------------------------------------------------------
(* The text of a released record. *)

\* What a plan with no two edits across each other edits is gone from the text.
LEMMA SanitizedHides ==
    ASSUME NEW W, NEW text \in Seq(W), NEW plan, ReadAll(text, plan.entities),
           Applicable(plan.edits), NEW registry, DOMAIN registry \subseteq Identifier, NEW name \in Name,
           \A q \in Matches(text, {name}) :
               \E e \in plan.entities : RangeOf(e) \in plan.edits /\ Covers(e, q)
    PROVE  Matches(Sanitized(text, plan, registry), {name}) = {}
<1> DEFINE edited == {e \in plan.entities : RangeOf(e) \in plan.edits}
           piece == [e \in edited |-> IF e.hint \in DOMAIN registry THEN e.hint ELSE Removed]
           S == W \cup Identifier \cup {Removed}
           F == {i \in Nat : \A e \in edited : ~(e.start < i /\ i < e.end)}
           result == Rewritten(text, edited, piece)
<1>1. text \in Seq(S) /\ Len(text) \in Nat
      OBVIOUS
<1>2. Sanitized(text, plan, registry) = result
      BY DEF Sanitized
<1>3. ASSUME NEW e \in edited
      PROVE  e.start \in Nat /\ e.end \in 0..Len(text) /\ e.start < e.end
      BY <1>1 DEF ReadAll, Read, EntityType
<1>4. EditsOf(text, edited)
      BY <1>3 DEF EditsOf
<1>5. ASSUME NEW e \in edited
      PROVE  piece[e] \in Identifier \cup {Removed}
      OBVIOUS
<1>6. \A e, f \in edited : Overlap(e, f) => e.end = f.end
  <2> SUFFICES ASSUME NEW e \in edited, NEW f \in edited, Overlap(e, f)
               PROVE  e.end = f.end
      OBVIOUS
  <2> DEFINE r == RangeOf(e)
             q == RangeOf(f)
  <2>1. r.start = e.start /\ r.end = e.end /\ q.start = f.start /\ q.end = f.end
        BY DEF RangeOf
  <2>2. r \in plan.edits /\ q \in plan.edits
        OBVIOUS
  <2> HIDE DEF r, q
  <2>3. Overlap(r, q)
        BY <2>1 DEF Overlap
  <2>4. r = q
        BY <2>2, <2>3 DEF Applicable
  <2> QED BY <2>1, <2>4
<1> HIDE DEF edited, piece
<1>7. Visits(text, edited, F)
  <2>1. 0 \in F
        BY <1>3
  <2>2. ASSUME NEW i \in F \cap (0..Len(text)), Starting(edited, i) = {}
        PROVE  i + 1 \in F
    <3>1. ASSUME NEW e \in edited, e.start < i + 1, i + 1 < e.end PROVE FALSE
      <4>1. e.start # i
            BY <2>2 DEF Starting
      <4>2. e.start < i /\ i < e.end
            BY <1>3, <3>1, <4>1
      <4> QED BY <4>2
    <3> QED BY <3>1
  <2>3. ASSUME NEW i \in F \cap (0..Len(text)), Starting(edited, i) # {}
        PROVE  Longest(edited, i).end \in F
    <3> DEFINE l == Longest(edited, i)
    <3>1. l \in edited /\ l.start = i /\ l.end \in (i + 1)..Len(text)
          BY <1>1, <1>4, <2>3, LongestEnds
    <3> HIDE DEF l
    <3>2. ASSUME NEW e \in edited, e.start < l.end, l.end < e.end PROVE FALSE
      <4>1. Overlap(e, l)
            BY <1>1, <1>3, <3>1, <3>2 DEF Overlap
      <4>2. e.end = l.end
            BY <1>6, <3>1, <4>1
      <4> QED BY <1>1, <3>1, <3>2, <4>2
    <3>3. l.end \in Nat
          BY <1>1, <3>1
    <3> QED BY <3>2, <3>3 DEF l
  <2> QED BY <2>1, <2>2, <2>3 DEF Visits
<1>8. ASSUME NEW r \in Matches(result, {name}) PROVE FALSE
  <2>1. r \in Ranges(result) /\ name = Words(result, r)
        BY DEF Matches
  <2>2. \A q \in 1..Len(name), e \in edited : name[q] # piece[e]
    <3>1. DOMAIN name = 1..Len(name)
          BY TextAssumption
    <3> QED BY <1>5, <3>1, MarkerAssumption
  <2>3. /\ name \in Seq(S) /\ Len(name) >= 1
        /\ \E m \in F \cap (0..Len(text)) :
               /\ RangeAt(m, name) \in Ranges(text) /\ Words(text, RangeAt(m, name)) = name
               /\ \A k \in m..(m + Len(name) - 1) : Starting(edited, k) = {}
    <3>1. \A e \in edited : piece[e] \in S
          BY <1>5
    <3> HIDE DEF S, F
    <3> QED BY <1>1, <1>4, <1>7, <2>1, <2>2, <3>1, WordsKept DEF result
  <2>4. PICK m \in F \cap (0..Len(text)) :
            /\ RangeAt(m, name) \in Ranges(text) /\ Words(text, RangeAt(m, name)) = name
            /\ \A k \in m..(m + Len(name) - 1) : Starting(edited, k) = {}
        BY <2>3
  <2>5. Len(name) \in Nat /\ Len(name) >= 1
        BY <2>3
  <2>6. PICK e \in edited : Covers(e, RangeAt(m, name))
        BY <2>4 DEF Matches, edited
  <2>7. e.start <= m /\ m + Len(name) <= e.end
        BY <2>6 DEF Covers, RangeAt
  <2>8. Starting(edited, m) = {}
        BY <2>4, <2>5
  <2>9. e.start # m
        BY <2>8 DEF Starting
  <2>10. e.start < m /\ m < e.end
        BY <1>3, <2>5, <2>7, <2>9
  <2> QED BY <2>10
<1> QED BY <1>2, <1>8

-----------------------------------------------------------------------------
(* What a step of one upload leaves to the others. *)

\* What both invariants and the progress of a step give.
LEMMA GoesAhead ==
    ASSUME PrivacyInv, PrivacyInv', Progress
    PROVE  Ahead
BY PrivacyAssumption DEF Ahead, PrivacyInv, Stored

\* A record is one upload's.
LEMMA OthersRecords ==
    ASSUME NEW j \in Upload, NEW k \in Upload, k # j, NEW i \in 1..Len(RecordsOf[k])
    PROVE  RecordsOf[k][i] \in Record \ Mine(j)
<1>1. RecordsOf[k][i] \in Record /\ i \in DOMAIN RecordsOf[k]
      BY Uploaded
<1>2. RecordsOf[k][i] \notin {RecordsOf[j][x] : x \in DOMAIN RecordsOf[j]}
      BY <1>1, RecordAssumption
<1> QED BY <1>1, <1>2 DEF Mine

\* A record that a step leaves alone, or quarantines, or drops the plan of.
Spared(r) ==
    /\ privacy_plans'[r] = None \/ privacy_plans'[r] = privacy_plans[r]
    /\ ~record'[r].quarantined =>
           /\ ~record[r].quarantined /\ record'[r].text = record[r].text
           /\ privacy_plans'[r] = privacy_plans[r]

\* An upload whose worker does nothing and whose records are spared.
LEMMA SparedUpload ==
    ASSUME Ahead, PrivacyInv, HiddenInv, NEW k \in Upload,
           worker'[k] = worker[k], job'[k] = job[k],
           \A i \in 1..Len(RecordsOf[k]) : Spared(RecordsOf[k][i])
    PROVE  WorkerHides(k)' /\ UploadHides(k)'
<1>1. Keeps(k, worker[k], privacy_generation) /\ WorkerHides(k) /\ UploadHides(k)
      BY DEF PrivacyInv, Workers, HiddenInv
<1>2. WorkerHides(k)'
      BY <1>1, WorkerStillHides
<1>3. ASSUME NEW i \in 1..Len(RecordsOf[k])
      PROVE  LET r == RecordsOf[k][i]
             IN  /\ SavedFor(r, privacy_plans[r], privacy_generation) /\ PlanHides(r)
                 /\ Released(r)' =>
                        /\ Released(r) /\ record'[r].text = record[r].text
                        /\ privacy_plans'[r] = privacy_plans[r]
  <2>1. RecordsOf[k][i] \in Record
        BY Uploaded
  <2>2. SavedFor(RecordsOf[k][i], privacy_plans[RecordsOf[k][i]], privacy_generation)
        BY <2>1 DEF PrivacyInv, Stored
  <2>3. PlanHides(RecordsOf[k][i])
        BY <2>1 DEF HiddenInv
  <2> QED BY <1>3, <2>2, <2>3 DEF Spared, Released
<1>4. UploadHides(k)'
      BY <1>1, <1>3, UploadStillHides
<1> QED BY <1>2, <1>4

\* The plan of a record that is spared.
LEMMA SparedPlan ==
    ASSUME Ahead, PrivacyInv, HiddenInv, NEW r \in Record, Spared(r)
    PROVE  PlanHides(r)'
<1>1. SavedFor(r, privacy_plans[r], privacy_generation) /\ PlanHides(r)
      BY DEF PrivacyInv, Stored, HiddenInv
<1> QED BY <1>1, PlanStillHides DEF Spared

\* A step of one upload: the invariant is kept if it is kept for that upload.
LEMMA OneHides ==
    ASSUME Ahead, PrivacyInv, HiddenInv, NEW j \in Upload,
           \A k \in Upload \ {j} : worker'[k] = worker[k] /\ job'[k] = job[k],
           \A r \in Record \ Mine(j) : Spared(r),
           WorkerHides(j)', UploadHides(j)', \A r \in Mine(j) : PlanHides(r)', Shaped'
    PROVE  HiddenInv'
<1>1. ASSUME NEW k \in Upload PROVE WorkerHides(k)' /\ UploadHides(k)'
  <2>1. CASE k = j
        BY <2>1
  <2>2. CASE k # j
    <3>1. \A i \in 1..Len(RecordsOf[k]) : Spared(RecordsOf[k][i])
          BY <2>2, OthersRecords
    <3> QED BY <2>2, <3>1, SparedUpload
  <2> QED BY <2>1, <2>2
<1>2. ASSUME NEW r \in Record PROVE PlanHides(r)'
      BY SparedPlan
<1> QED BY <1>1, <1>2 DEF HiddenInv

\* A step of one worker that leaves the records and the plans alone.
LEMMA QuietHides ==
    ASSUME Ahead, PrivacyInv, HiddenInv, NEW j \in Upload, NEW v,
           worker' = [worker EXCEPT ![j] = v], UNCHANGED <<record, privacy_plans>>,
           \A k \in Upload \ {j} : job'[k] = job[k], job'[j] # "privacy_ready",
           WorkerHides(j)'
    PROVE  HiddenInv'
<1>1. \A r \in Record : Spared(r)
      BY DEF Spared
<1>2. \A k \in Upload \ {j} : worker'[k] = worker[k] /\ job'[k] = job[k]
      BY DEF PrivacyInv, Workers
<1>3. UploadHides(j)'
      BY DEF UploadHides
<1>4. \A r \in Mine(j) : PlanHides(r)'
  <2>1. Mine(j) \subseteq Record
        BY Uploaded DEF Mine
  <2> QED BY <1>1, <2>1, SparedPlan
<1>5. Shaped'
      BY DEF HiddenInv, Shaped
<1> QED BY <1>1, <1>2, <1>3, <1>4, <1>5, OneHides

\* A step that changes no worker and no job.
LEMMA AllSpared ==
    ASSUME Ahead, PrivacyInv, HiddenInv, UNCHANGED <<worker, job>>,
           \A r \in Record : Spared(r), Shaped'
    PROVE  HiddenInv'
<1>1. ASSUME NEW k \in Upload PROVE WorkerHides(k)' /\ UploadHides(k)'
  <2>1. \A i \in 1..Len(RecordsOf[k]) : Spared(RecordsOf[k][i])
        BY Uploaded
  <2> QED BY <2>1, SparedUpload
<1>2. ASSUME NEW r \in Record PROVE PlanHides(r)'
      BY SparedPlan
<1> QED BY <1>1, <1>2 DEF HiddenInv

-----------------------------------------------------------------------------
(* What the steps of a worker hide. *)

\* A step that registers nobody and decides nothing.
LEMMA QuietProgress ==
    ASSUME PrivacyInv, UNCHANGED <<people, privacy_generation, privacy_resolutions>>
    PROVE  Progress
<1>1. privacy_generation \in Nat
      BY PrivacyAssumption DEF PrivacyInv, Stored
<1> QED BY <1>1 DEF Progress, Extends

\* A worker that is not idle is of a running upload.
LEMMA BusyRuns ==
    ASSUME HiddenInv, PrivacyInv, NEW j \in Upload, worker[j] # Idle
    PROVE  job[j] = "running"
BY DEF HiddenInv, WorkerHides

\* A worker begins with everybody of the registry and with no plan.
LEMMA ReadPrivateHides ==
    ASSUME PrivacyInv, PrivacyInv', HiddenInv, NEW j \in Upload, ReadPrivate(j)
    PROVE  HiddenInv'
<1> DEFINE v == [phase |-> "look", round |-> 0, at |-> 1, created |-> FALSE,
                 saved |-> [i \in DOMAIN RecordsOf[j] |-> Saved(RecordsOf[j][i])],
                 resolutions |-> [i \in DOMAIN RecordsOf[j] |-> Of(RecordsOf[j][i])],
                 plans |-> <<>>, people |-> <<>>, revision |-> 0, began |-> DOMAIN people]
<1>1. /\ worker' = [worker EXCEPT ![j] = v] /\ job[j] = "running"
      /\ UNCHANGED <<people, privacy_generation, privacy_resolutions, privacy_plans, record, job>>
      BY DEF ReadPrivate, registryVars, reviewVars
<1>2. Ahead
      BY <1>1, QuietProgress, GoesAhead
<1>3. /\ v.phase = "look" /\ v.began = DOMAIN people /\ v.plans = <<>>
      /\ \A i \in 1..Len(RecordsOf[j]) : v.resolutions[i] = Of(RecordsOf[j][i])
      BY Uploaded
<1>4. worker'[j] = v
      BY <1>1 DEF PrivacyInv, Workers
<1> HIDE DEF v
<1>5. \A i \in 1..Len(RecordsOf[j]) : v.resolutions[i] \subseteq Of(RecordsOf[j][i])'
      BY <1>1, <1>3 DEF Of
<1>6. 1..Len(v.plans) = {}
      BY <1>3
<1>7. Watches(j, worker[j])'
      BY <1>1, <1>3, <1>4, <1>5, <1>6 DEF Watches
<1>8. WorkerHides(j)'
      BY <1>1, <1>3, <1>4, <1>7 DEF WorkerHides
<1> QED BY <1>1, <1>2, <1>8, QuietHides

\* A worker looks the registry up.
LEMMA LookHides ==
    ASSUME PrivacyInv, PrivacyInv', HiddenInv, NEW j \in Upload, Look(j)
    PROVE  HiddenInv'
<1> DEFINE w == worker[j]
           v == [w EXCEPT !.phase = "plan", !.people = people, !.revision = privacy_generation]
<1>1. /\ worker' = [worker EXCEPT ![j] = v] /\ w.phase = "look"
      /\ UNCHANGED <<people, privacy_generation, privacy_resolutions, privacy_plans, record, job>>
      BY DEF Look, registryVars, reviewVars
<1>2. Ahead
      BY <1>1, QuietProgress, GoesAhead
<1>3. Keeps(j, w, privacy_generation) /\ worker'[j] = v /\ WorkerHides(j)
      BY <1>1 DEF PrivacyInv, Workers, HiddenInv
<1>4. w # Idle
      BY <1>1 DEF Idle
<1>5. job[j] = "running"
      BY <1>4, BusyRuns
<1>6. Watches(j, w)
      BY <1>1, <1>3 DEF WorkerHides
<1> HIDE DEF w
<1>7. w = [field \in Field |-> w[field]]
      BY <1>1, <1>3 DEF Keeps, Idle, Persisting, Planning
<1>8. /\ v.phase = "plan" /\ v.began = w.began /\ v.resolutions = w.resolutions
      /\ v.plans = w.plans /\ v.round = w.round /\ v.at = w.at
      /\ v.people = people /\ v.revision = privacy_generation
      BY <1>7 DEF Field
<1> HIDE DEF v
<1>9. \A r : Of(r)' = Of(r)
      BY <1>1 DEF Of
<1>10. \A r, plan, began : HidesNow(r, plan, began) => HidesNext(r, plan, began)
       BY <1>1, <1>9 DEF HidesNow, HidesNext
<1>11. Extends(people', v.people)
       BY <1>1, <1>8 DEF Extends
<1>12. /\ v.began \subseteq DOMAIN people' /\ v.began \subseteq DOMAIN v.people
       /\ \A i \in 1..Len(RecordsOf[j]) : v.resolutions[i] \subseteq Of(RecordsOf[j][i])'
       /\ \A i \in 1..Len(v.plans) :
              v.round > 1 \/ (v.round = 1 /\ i < v.at) => HidesNext(RecordsOf[j][i], v.plans[i], v.began)
       BY <1>1, <1>6, <1>8, <1>9, <1>10 DEF Watches
<1>13. Watches(j, worker[j])'
       BY <1>3, <1>11, <1>12 DEF Watches, HidesNow, HidesNext
<1>14. WorkerHides(j)'
       BY <1>1, <1>3, <1>5, <1>8, <1>13 DEF WorkerHides
<1> QED BY <1>1, <1>2, <1>5, <1>14, QuietHides

\* A worker that stops is idle.
LEMMA IdleHides ==
    ASSUME PrivacyInv, PrivacyInv', HiddenInv, NEW j \in Upload,
           worker' = [worker EXCEPT ![j] = Idle],
           UNCHANGED <<people, privacy_generation, privacy_resolutions, privacy_plans, record>>,
           \A k \in Upload \ {j} : job'[k] = job[k], job'[j] # "privacy_ready"
    PROVE  HiddenInv'
<1>1. Ahead
      BY QuietProgress, GoesAhead
<1>2. worker'[j] = Idle
      BY DEF PrivacyInv, Workers
<1>3. WorkerHides(j)'
      BY <1>2 DEF WorkerHides, Idle
<1> QED BY <1>1, <1>3, QuietHides

\* A worker raises or dies.
LEMMA StopHides ==
    ASSUME PrivacyInv, PrivacyInv', HiddenInv, NEW j \in Upload, Raise(j) \/ Crash(j)
    PROVE  HiddenInv'
<1>1. /\ worker' = [worker EXCEPT ![j] = Idle] /\ worker[j] # Idle
      /\ UNCHANGED <<people, privacy_generation, privacy_resolutions, privacy_plans, record>>
      /\ job' = job \/ job' = [job EXCEPT ![j] = "failed"]
      BY DEF Raise, Crash, registryVars, reviewVars, Idle
<1>2. DOMAIN job = Upload /\ job[j] = "running"
      BY <1>1, BusyRuns DEF PrivacyInv, Stored
<1>3. (\A k \in Upload \ {j} : job'[k] = job[k]) /\ job'[j] # "privacy_ready"
      BY <1>1, <1>2
<1> QED BY <1>1, <1>3, IdleHides

\* What a worker keeps when it goes on, and where it goes.
Goes(j, w, plans, v) ==
    /\ v.plans = plans /\ v.began = w.began
    /\ v.phase \in {"look", "persist"}
    /\ v.phase = "look" =>
           /\ v.resolutions = w.resolutions /\ v.at \in Nat
           /\ v.round > 1 \/ (v.round = 1 /\ v.at > 1) => w.round > 0
           /\ w.at = Len(RecordsOf[j]) \/ (v.round = w.round /\ v.at = w.at + 1)
    /\ v.phase = "persist" => w.round > 0 /\ w.at = Len(RecordsOf[j])

\* So it does.
LEMMA OnwardGoes ==
    ASSUME NEW j \in Upload, NEW w, NEW generation \in Nat, Planning(j, w, generation),
           NEW plans, NEW created
    PROVE  Goes(j, w, plans, Onward(j, [w EXCEPT !.plans = plans, !.created = created]))
<1> DEFINE x == [w EXCEPT !.plans = plans, !.created = created]
           y == [x EXCEPT !.people = <<>>, !.revision = 0]
           n == Len(RecordsOf[j])
<1>1. w = [field \in Field |-> w[field]] /\ n \in Nat /\ w.at \in 1..n /\ w.round \in Nat
      BY Uploaded DEF Planning
<1>2. /\ x = [field \in Field |-> x[field]] /\ x.plans = plans /\ x.began = w.began
      /\ x.round = w.round /\ x.at = w.at /\ x.resolutions = w.resolutions
      BY <1>1 DEF Field
<1> HIDE DEF x
<1>3. /\ y = [field \in Field |-> y[field]] /\ y.plans = plans /\ y.began = w.began
      /\ y.round = w.round /\ y.at = w.at /\ y.resolutions = w.resolutions
      BY <1>2 DEF Field
<1>4. Onward(j, x) =
          IF y.at < n THEN [y EXCEPT !.phase = "look", !.at = @ + 1]
          ELSE IF Closed(y) THEN [phase |-> "persist", plans |-> y.plans, began |-> y.began]
          ELSE [y EXCEPT !.phase = "look", !.at = 1, !.round = @ + 1, !.created = FALSE]
      BY DEF Onward
<1> HIDE DEF y
<1>5. CASE y.at < n
  <2> DEFINE z == [y EXCEPT !.phase = "look", !.at = @ + 1]
  <2>1. /\ z.plans = plans /\ z.phase = "look" /\ z.began = w.began
        /\ z.round = w.round /\ z.at = w.at + 1 /\ z.resolutions = w.resolutions
        BY <1>3 DEF Field
  <2> HIDE DEF z
  <2>2. Goes(j, w, plans, z)
        BY <1>1, <2>1 DEF Goes
  <2> QED BY <1>4, <1>5, <2>2 DEF x, z
<1>6. CASE ~(y.at < n) /\ Closed(y)
  <2> DEFINE z == [phase |-> "persist", plans |-> y.plans, began |-> y.began]
  <2>1. /\ z.plans = plans /\ z.phase = "persist" /\ z.began = w.began
        /\ w.round > 0 /\ w.at = n
        BY <1>1, <1>3, <1>6 DEF Closed
  <2> HIDE DEF z
  <2>2. Goes(j, w, plans, z)
        BY <2>1 DEF Goes
  <2> QED BY <1>4, <1>6, <2>2 DEF x, z
<1>7. CASE ~(y.at < n) /\ ~Closed(y)
  <2> DEFINE z == [y EXCEPT !.phase = "look", !.at = 1, !.round = @ + 1, !.created = FALSE]
  <2>1. /\ z.plans = plans /\ z.phase = "look" /\ z.began = w.began
        /\ z.round = w.round + 1 /\ z.at = 1 /\ z.resolutions = w.resolutions
        BY <1>3 DEF Field
  <2> HIDE DEF z
  <2>2. w.at = n
        BY <1>1, <1>3, <1>7
  <2>3. Goes(j, w, plans, z)
        BY <1>1, <2>1, <2>2 DEF Goes
  <2> QED BY <1>4, <1>7, <2>3 DEF x, z
<1> QED BY <1>5, <1>6, <1>7

\* From the second round on the pass over a record hides whom the worker began with, in the
\* registry that it leaves behind.
LEMMA PassHidesNext ==
    ASSUME Ahead, UNCHANGED privacy_generation, NEW j \in Upload, NEW w,
           Planning(j, w, privacy_generation), w.phase = "plan", w.round > 0, Watches(j, w),
           NEW text, text = TextOf(j, w.at), NEW pass \in Passes(w, text),
           PlanOf(text, pass), pass.revision = w.revision,
           people' = Registered(text, pass, people).people
    PROVE  HidesNext(RecordsOf[j][w.at], Registered(text, pass, people).plan, w.began)
<1> DEFINE result == Registered(text, pass, people)
           r == RecordsOf[j][w.at]
           more == Of(r)'
           later == people'
<1>1. /\ w.at \in 1..Len(RecordsOf[j]) /\ Rows(w.people) /\ Len(text) \in Nat
      BY PlanningRead, Uploaded DEF Ahead
<1>2. /\ result.plan.edits = pass.edits
      /\ \A e \in pass.entities : \E f \in result.plan.entities : RangeOf(f) = RangeOf(e)
      /\ Extends(result.people, people)
      BY RegisteredKeeps DEF Ahead
<1>3. result.plan.revision = pass.revision
  <2>1. pass \in PlanType
        BY DEF PlanOf
  <2> QED BY <2>1 DEF Registered, PlanType
<1> SUFFICES ASSUME w.revision = privacy_generation
             PROVE  Hides(Text[r], result.plan, w.began, later, more)
    BY <1>3 DEF HidesNext
<1>4. /\ w.began \subseteq DOMAIN w.people /\ Extends(people, w.people)
      /\ w.resolutions[w.at] \subseteq Of(r)
      BY <1>1 DEF Watches
<1>5. Extends(later, w.people) /\ Rows(later)
  <2>1. Extends(later, people)
        BY <1>2
  <2> QED BY <1>4, <2>1 DEF Extends, Ahead
<1>6. w.resolutions[w.at] \subseteq more
      BY <1>4 DEF Of, Ahead, Progress
<1>7. Hides(text, pass, DOMAIN w.people, w.people, w.resolutions[w.at])
      BY <1>1, PassesHide
<1> HIDE DEF result, more, later
<1>8. Hides(text, result.plan, w.began, w.people, more)
  <2> DEFINE plan == result.plan
  <2>1. /\ pass.edits \subseteq plan.edits
        /\ \A e \in pass.entities : \E f \in plan.entities : RangeOf(f) = RangeOf(e)
        BY <1>2
  <2> HIDE DEF plan
  <2>2. Hides(text, plan, w.began, w.people, more)
        BY <1>4, <1>6, <1>7, <2>1, HidesMore
  <2> QED BY <2>2 DEF plan
<1>9. Hides(text, result.plan, w.began, later, more)
  <2> DEFINE plan == result.plan
  <2>1. Hides(text, plan, w.began, w.people, more)
        BY <1>8
  <2> HIDE DEF plan
  <2>2. Hides(text, plan, w.began, later, more)
        BY <1>1, <1>4, <1>5, <2>1, HidesLater
  <2> QED BY <2>2 DEF plan
<1> QED BY <1>9 DEF TextOf

\* A worker plans a record.
LEMMA PlanRecordHides ==
    ASSUME PrivacyInv, PrivacyInv', HiddenInv, NEW j \in Upload, PlanRecord(j)
    PROVE  HiddenInv'
<1> DEFINE w == worker[j]
           text == TextOf(j, w.at)
           n == Len(RecordsOf[j])
<1>1. /\ Planning(j, w, privacy_generation) /\ w.phase = "plan"
      /\ \E pass \in Passes(w, text) :
             PlanOf(text, pass) /\ pass.revision = w.revision /\ Takes(j, w, text, pass)
      BY PassTaken
<1>2. PICK pass \in Passes(w, text) :
          PlanOf(text, pass) /\ pass.revision = w.revision /\ Takes(j, w, text, pass)
      BY <1>1
<1> DEFINE result == Registered(text, pass, people)
           plans == Planned(w, result.plan)
           created == w.created \/ result.created
           v == Onward(j, [w EXCEPT !.plans = plans, !.created = created])
<1>3. /\ people' = result.people /\ worker' = [worker EXCEPT ![j] = v]
      /\ UNCHANGED <<privacy_generation, privacy_resolutions, privacy_plans, record, job>>
      BY <1>2 DEF Takes, PlanRecord, reviewVars
<1>4. Rows(people) /\ privacy_generation \in Nat
      BY PrivacyAssumption DEF PrivacyInv, Stored
<1>5. Ahead
  <2>1. Extends(people', people)
    <3> HIDE DEF text
    <3> QED BY <1>2, <1>3, <1>4, RegisteredKeeps
  <2>2. Progress
        BY <1>3, <1>4, <2>1 DEF Progress, Extends
  <2> QED BY <2>2, GoesAhead
<1>6. worker'[j] = v /\ WorkerHides(j)
      BY <1>3 DEF PrivacyInv, Workers, HiddenInv
<1>7. Watches(j, w) /\ job[j] = "running"
      BY <1>1, <1>6, BusyRuns DEF WorkerHides, Idle
<1> HIDE DEF w
<1>8. w.round > 0 => HidesNext(RecordsOf[j][w.at], result.plan, w.began)
  <2> HIDE DEF text
  <2>1. text = TextOf(j, w.at)
        BY DEF text
  <2> QED BY <1>1, <1>2, <1>3, <1>5, <1>7, <2>1, PassHidesNext
<1>9. Goes(j, w, plans, v)
  <2> HIDE DEF plans, created
  <2> QED BY <1>1, <1>4, OnwardGoes
<1>10. /\ w.round \in Nat /\ w.at \in 1..n /\ n \in Nat
       /\ PlansOf(j, w.plans, privacy_generation)
       /\ w.round > 0 => Len(w.plans) = n
       BY <1>1, Uploaded DEF Planning
<1> HIDE DEF v, result
<1>11. ASSUME w.round > 0, NEW i \in 1..Len(plans), w.round > 1 \/ i <= w.at
       PROVE  HidesNext(RecordsOf[j][i], plans[i], w.began)
  <2>1. plans = [w.plans EXCEPT ![w.at] = result.plan]
        BY <1>10, <1>11 DEF Planned
  <2>2. Len(w.plans) = n /\ DOMAIN w.plans = 1..n
        BY <1>10, <1>11, LenProperties DEF PlansOf
  <2>3. Len(plans) = n
        BY <1>10, <2>1, <2>2
  <2> HIDE DEF plans
  <2>4. CASE i = w.at
        BY <1>8, <1>10, <1>11, <2>1, <2>2, <2>4
  <2>5. CASE i # w.at
    <3> DEFINE plan == w.plans[i]
    <3>1. plans[i] = plan
          BY <1>10, <2>1, <2>2, <2>3, <2>5
    <3>2. i \in 1..Len(w.plans) /\ (w.round > 1 \/ (w.round = 1 /\ i < w.at))
          BY <1>10, <1>11, <2>2, <2>3, <2>5
    <3>3. HidesNow(RecordsOf[j][i], plan, w.began) /\ w.began \in SUBSET DOMAIN people
          BY <1>7, <3>2 DEF Watches
    <3>4. plan.revision \in 1..privacy_generation
          BY <1>10, <3>2 DEF PlansOf
    <3> HIDE DEF plan
    <3>5. HidesNext(RecordsOf[j][i], plan, w.began)
          BY <1>5, <3>3, <3>4, StillHidesNow DEF Ahead
    <3> QED BY <3>1, <3>5
  <2> QED BY <2>4, <2>5
<1>12. w.round > 0 => Len(plans) = n
  <2> SUFFICES ASSUME w.round > 0 PROVE Len(plans) = n
      OBVIOUS
  <2>1. plans = [w.plans EXCEPT ![w.at] = result.plan] /\ Len(w.plans) = n
        BY <1>10 DEF Planned
  <2> QED BY <1>10, <2>1
<1> HIDE DEF plans
<1>13. w.began \subseteq DOMAIN people'
       BY <1>5, <1>7 DEF Watches, Ahead, Progress
<1>14. \A r : Of(r)' = Of(r)
       BY <1>3 DEF Of
<1>15. CASE v.phase = "look"
  <2>1. \A i \in 1..n : v.resolutions[i] \subseteq Of(RecordsOf[j][i])'
        BY <1>7, <1>9, <1>14, <1>15 DEF Goes, Watches
  <2>2. ASSUME NEW i \in 1..Len(v.plans), v.round > 1 \/ (v.round = 1 /\ i < v.at)
        PROVE  HidesNext(RecordsOf[j][i], v.plans[i], v.began)
    <3>1. v.plans = plans /\ v.began = w.began
          BY <1>9 DEF Goes
    <3>2. i \in 1..Len(plans) /\ i \in Nat
          BY <2>2, <3>1
    <3>3. /\ v.round > 1 \/ (v.round = 1 /\ v.at > 1) => w.round > 0
          /\ v.at \in Nat
          /\ w.at = n \/ (v.round = w.round /\ v.at = w.at + 1)
          BY <1>9, <1>15 DEF Goes
    <3>4. w.round > 0
      <4>1. CASE v.round > 1
            BY <3>3, <4>1
      <4>2. CASE v.round = 1 /\ i < v.at /\ w.at = n
        <5> SUFFICES ASSUME w.round = 0 PROVE FALSE
            BY <1>10
        <5>1. ~(v.at > 1)
              BY <3>3, <4>2
        <5> QED BY <3>2, <3>3, <4>2, <5>1
      <4>3. CASE v.round = 1 /\ v.round = w.round
            BY <4>3
      <4> QED BY <2>2, <3>3, <4>1, <4>2, <4>3
    <3>5. w.round > 1 \/ i <= w.at
      <4>1. CASE w.at = n
            BY <1>10, <1>12, <3>2, <3>4, <4>1
      <4>2. CASE v.round = w.round /\ v.at = w.at + 1
            BY <1>10, <2>2, <3>2, <4>2
      <4> QED BY <3>3, <4>1, <4>2
    <3> QED BY <1>11, <3>1, <3>2, <3>4, <3>5
  <2>3. Watches(j, worker[j])'
        BY <1>6, <1>9, <1>13, <1>15, <2>1, <2>2 DEF Goes, Watches, HidesNow, HidesNext
  <2>4. WorkerHides(j)'
        BY <1>3, <1>6, <1>7, <1>15, <2>3 DEF WorkerHides
  <2> QED BY <1>3, <1>5, <1>7, <2>4, QuietHides
<1>16. CASE v.phase = "persist"
  <2>1. v.plans = plans /\ v.began = w.began /\ w.round > 0 /\ w.at = n
        BY <1>9, <1>16 DEF Goes
  <2>2. ASSUME NEW i \in 1..Len(v.plans)
        PROVE  HidesNext(RecordsOf[j][i], v.plans[i], v.began)
    <3>1. i \in 1..Len(plans) /\ i <= w.at
          BY <1>12, <2>1
    <3> QED BY <1>11, <2>1, <3>1
  <2>3. Finishes(j, worker[j])'
        BY <1>6, <1>13, <2>1, <2>2 DEF Finishes, HidesNow, HidesNext
  <2>4. WorkerHides(j)'
        BY <1>3, <1>6, <1>7, <1>16, <2>3 DEF WorkerHides
  <2> QED BY <1>3, <1>5, <1>7, <2>4, QuietHides
<1> QED BY <1>9, <1>15, <1>16 DEF Goes

\* One plan edits what another does, in the same generation.
Carries(final, plan) ==
    /\ final.revision = plan.revision
    /\ plan.edits \subseteq final.edits
    /\ \A e \in plan.entities : \E f \in final.entities : RangeOf(f) = RangeOf(e)

\* The plan that is saved for a record edits what the worker's plan of it edits.
LEMMA FinalHides ==
    ASSUME NEW j \in Upload, NEW w, w = worker[j], NEW generation \in Nat,
           PlansOf(j, w.plans, generation), Len(w.plans) = Len(RecordsOf[j]),
           NEW r \in Mine(j), NEW found
    PROVE  \E i \in 1..Len(w.plans) :
               /\ RecordsOf[j][i] = r
               /\ Carries(Final(j, r, found), w.plans[i]) /\ Final(j, r, found).began = w.began
<1> DEFINE i == CHOOSE k \in DOMAIN w.plans : RecordsOf[j][k] = r
           plan == w.plans[i]
           entity(e) == IF IsProposal(e) /\ e.hint \in {f.hint : f \in found}
                        THEN [e EXCEPT !.hint = Proposed[e.hint]] ELSE e
           entities == {entity(e) : e \in plan.entities}
           final == Final(j, r, found)
<1>1. i \in 1..Len(w.plans) /\ RecordsOf[j][i] = r
  <2>1. DOMAIN w.plans = DOMAIN RecordsOf[j] /\ DOMAIN w.plans = 1..Len(w.plans)
        BY Uploaded, LenProperties DEF PlansOf
  <2>2. PICK k \in DOMAIN w.plans : RecordsOf[j][k] = r
        BY <2>1 DEF Mine
  <2>3. i \in DOMAIN w.plans /\ RecordsOf[j][i] = r
        BY <2>2
  <2> HIDE DEF i
  <2> QED BY <2>1, <2>3
<1>2. /\ final.entities = entities /\ final.edits = plan.edits
      /\ final.revision = plan.revision /\ final.began = w.began
      BY DEF Final
<1> HIDE DEF i, final
<1>3. \A e \in plan.entities : RangeOf(entity(e)) = RangeOf(e)
  <2> SUFFICES ASSUME NEW e \in plan.entities PROVE RangeOf(entity(e)) = RangeOf(e)
      OBVIOUS
  <2>1. e \in EntityType
        BY <1>1 DEF PlansOf, PlanOf, PlanType
  <2> DEFINE hint == Proposed[e.hint]
             f == entity(e)
  <2>2. f = e \/ f = [e EXCEPT !.hint = hint]
        OBVIOUS
  <2> HIDE DEF hint, f
  <2>3. f.start = e.start /\ f.end = e.end
        BY <2>1, <2>2 DEF EntityType
  <2> QED BY <2>3 DEF RangeOf, f
<1> HIDE DEF entity
<1>4. \A e \in plan.entities : \E f \in final.entities : RangeOf(f) = RangeOf(e)
      BY <1>2, <1>3
<1>5. Carries(final, plan)
      BY <1>2, <1>4 DEF Carries
<1> QED BY <1>1, <1>2, <1>5 DEF final

\* What is saved hides whom the worker began with.
LEMMA PersistHides ==
    ASSUME PrivacyInv, PrivacyInv', HiddenInv, NEW j \in Upload, Persist(j)
    PROVE  HiddenInv'
<1> DEFINE w == worker[j]
           mine == Mine(j)
<1>0. PICK found \in SUBSET Proposals(j, w.plans) :
          LET plan == [r \in mine |-> Final(j, r, found)]
          IN  /\ Admits(found, Proposals(j, w.plans))
              /\ people' = WithPeople(people, found)
              /\ privacy_plans' =
                     [r \in Record |-> IF r \in mine THEN plan[r] ELSE privacy_plans[r]]
      BY DEF Persist, Mine
<1>1. /\ people' = WithPeople(people, found)
      /\ privacy_plans' =
             [r \in Record |-> IF r \in mine THEN Final(j, r, found) ELSE privacy_plans[r]]
  <2> HIDE DEF mine
  <2> QED BY <1>0
<1>2. /\ worker' = [worker EXCEPT ![j] = [phase |-> "apply"]] /\ w.phase = "persist"
      /\ UNCHANGED <<privacy_generation, privacy_resolutions, record, job>>
      BY DEF Persist
<1>3. Persisting(j, w, privacy_generation) /\ privacy_generation \in Nat
  <2>1. Keeps(j, w, privacy_generation)
        BY DEF PrivacyInv, Workers
  <2>2. w.phase = "persist"
        BY <1>2
  <2> HIDE DEF w
  <2>3. Persisting(j, w, privacy_generation)
        BY <2>1, <2>2 DEF Planning, Idle, Keeps
  <2> QED BY <2>3, PrivacyAssumption DEF PrivacyInv, Stored
<1>4. PlansOf(j, w.plans, privacy_generation) /\ Len(w.plans) = Len(RecordsOf[j])
      BY <1>3 DEF Persisting
<1>5. Ahead
  <2>1. DOMAIN people \subseteq DOMAIN people' /\ \A p \in DOMAIN people : people'[p] = people[p]
        BY <1>1 DEF WithPeople
  <2>2. Progress
        BY <1>2, <1>3, <2>1 DEF Progress, Extends
  <2> QED BY <2>2, GoesAhead
<1>6. worker'[j] = [phase |-> "apply"] /\ WorkerHides(j)
      BY <1>2 DEF PrivacyInv, Workers, HiddenInv
<1>7. Finishes(j, w)
      BY <1>2, <1>6 DEF WorkerHides
<1>8. job[j] = "running"
      BY <1>2, BusyRuns DEF Idle
<1>9. ASSUME NEW r \in mine
      PROVE  /\ Final(j, r, found).began \subseteq DOMAIN people'
             /\ HidesNext(r, Final(j, r, found), Final(j, r, found).began)
  <2> DEFINE final == Final(j, r, found)
  <2>0. w = worker[j] /\ r \in Mine(j)
        OBVIOUS
  <2> HIDE DEF w, mine
  <2>1. PICK i \in 1..Len(w.plans) :
            RecordsOf[j][i] = r /\ Carries(final, w.plans[i]) /\ final.began = w.began
        BY <1>3, <1>4, <2>0, FinalHides
  <2> DEFINE plan == w.plans[i]
             began == w.began
             more == Of(r)'
             later == people'
  <2>2. /\ HidesNow(r, plan, began) /\ began \in SUBSET DOMAIN people
        /\ plan.revision \in 1..privacy_generation
        BY <1>4, <1>7, <2>1 DEF Finishes, PlansOf
  <2> HIDE DEF final, plan, began, more, later
  <2>3. HidesNext(r, plan, began)
        BY <1>5, <2>2, StillHidesNow DEF Ahead
  <2>4. /\ final.revision = plan.revision /\ final.began = began
        /\ plan.edits \subseteq final.edits
        /\ \A e \in plan.entities : \E f \in final.entities : RangeOf(f) = RangeOf(e)
        BY <2>1 DEF Carries, plan, began
  <2>5. HidesNext(r, final, began)
    <3> SUFFICES ASSUME final.revision = privacy_generation'
                 PROVE  Hides(Text[r], final, began, later, more)
        BY DEF HidesNext, later, more
    <3>1. Hides(Text[r], plan, began, later, more)
          BY <2>3, <2>4 DEF HidesNext, later, more
    <3>2. began \in SUBSET began /\ more \subseteq more
          OBVIOUS
    <3> QED BY <2>4, <3>1, <3>2, HidesMore
  <2>6. final.began \subseteq DOMAIN people'
        BY <1>5, <2>2, <2>4 DEF Ahead, Progress
  <2> QED BY <2>4, <2>5, <2>6 DEF final
<1> HIDE DEF w
<1>10. mine \subseteq Record
       BY Uploaded DEF Mine
<1> HIDE DEF mine
<1>11. ASSUME NEW r \in mine PROVE PlanHides(r)'
  <2>1. privacy_plans'[r] = Final(j, r, found)
        BY <1>1, <1>10
  <2> QED BY <1>9, <2>1 DEF PlanHides, HidesNow, HidesNext
<1>12. \A r \in Record \ Mine(j) : Spared(r)
       BY <1>1, <1>2 DEF Spared, mine
<1>13. \A k \in Upload \ {j} : worker'[k] = worker[k] /\ job'[k] = job[k]
       BY <1>2 DEF PrivacyInv, Workers
<1>14. WorkerHides(j)'
       BY <1>2, <1>6, <1>8 DEF WorkerHides
<1>15. UploadHides(j)'
       BY <1>2, <1>8 DEF UploadHides
<1>16. Shaped'
       BY <1>2 DEF HiddenInv, Shaped
<1> QED BY <1>5, <1>11, <1>12, <1>13, <1>14, <1>15, <1>16, OneHides DEF mine

\* What is written for a record hides whom the plan of the present generation has to.
LEMMA AppliedHides ==
    ASSUME PrivacyInv, HiddenInv, NEW r \in Record, Applies(r)
    PROVE  HiddenIn(r, Sanitized(Text[r], privacy_plans[r], people), privacy_plans[r])
<1> DEFINE plan == privacy_plans[r]
           text == Text[r]
           W == UNION {{Text[r][i] : i \in DOMAIN Text[r]}}
<1>1. /\ plan # None /\ Applicable(plan.edits) /\ ReadAll(text, plan.entities)
      /\ plan.began \subseteq DOMAIN people /\ HidesNow(r, plan, plan.began)
      BY DEF Applies, PrivacyInv, Stored, SavedFor, HiddenInv, PlanHides
<1>2. text \in Seq(W) /\ Rows(people)
      BY PrivacyAssumption DEF PrivacyInv, Stored
<1> HIDE DEF plan, text, W
<1>3. ASSUME plan.revision = privacy_generation, NEW p \in plan.began,
             CalledBy(people, people[p].display_name) = {p}, ~Coded(r, people[p].display_name)
      PROVE  Matches(Sanitized(text, plan, people), {people[p].display_name}) = {}
  <2> DEFINE name == people[p].display_name
  <2>1. name \in Name /\ DOMAIN people \subseteq Identifier
        BY <1>1, <1>2 DEF Rows, PersonRow
  <2>2. ASSUME NEW q \in Matches(text, {name})
        PROVE  \E e \in plan.entities : RangeOf(e) \in plan.edits /\ Covers(e, q)
    <3>1. \/ \E x \in Of(r) : x.decision = "system_code" /\ Covers(x, q)
          \/ \E e \in plan.entities : RangeOf(e) \in plan.edits /\ Covers(e, q)
          BY <1>1, <1>3 DEF HidesNow, Hides, text
    <3>2. ~ \E x \in Of(r) : x.decision = "system_code" /\ Covers(x, q)
          BY <1>3 DEF Coded, text
    <3> QED BY <3>1, <3>2
  <2> HIDE DEF name
  <2>3. Matches(Sanitized(text, plan, people), {name}) = {}
        BY <1>1, <1>2, <2>1, <2>2, SanitizedHides
  <2> QED BY <2>3 DEF name
<1> QED BY <1>3 DEF HiddenIn, plan, text

\* The records of an upload are released as their plans have them.
LEMMA ApplyHides ==
    ASSUME PrivacyInv, PrivacyInv', HiddenInv, NEW j \in Upload, Apply(j)
    PROVE  HiddenInv'
<1>1. /\ \A r \in Mine(j) : Applies(r)
      /\ record' = [r \in Record |->
             IF r \in Mine(j)
             THEN [quarantined |-> privacy_plans[r].unresolved,
                   text |-> Sanitized(Text[r], privacy_plans[r], people)]
             ELSE record[r]]
      /\ worker' = [worker EXCEPT ![j] = Idle] /\ \E state : job' = [job EXCEPT ![j] = state]
      /\ UNCHANGED <<people, privacy_generation, privacy_plans, privacy_resolutions>>
      BY DEF Apply, Mine, registryVars
<1>2. Ahead
      BY <1>1, QuietProgress, GoesAhead
<1>3. \A k \in Upload \ {j} : worker'[k] = worker[k] /\ job'[k] = job[k]
      BY <1>1 DEF PrivacyInv, Workers
<1>4. Mine(j) \subseteq Record
      BY Uploaded DEF Mine
<1>5. \A r \in Record \ Mine(j) : Spared(r)
      BY <1>1 DEF Spared
<1>6. WorkerHides(j)'
  <2>1. worker'[j] = Idle
        BY <1>1 DEF PrivacyInv, Workers
  <2> QED BY <2>1 DEF WorkerHides, Idle
<1>7. \A r \in Mine(j) : PlanHides(r)'
  <2>1. ASSUME NEW r \in Mine(j) PROVE PlanHides(r)'
    <3>1. /\ SavedFor(r, privacy_plans[r], privacy_generation) /\ PlanHides(r)
          /\ r \in Record
          BY <1>4 DEF PrivacyInv, Stored, HiddenInv
    <3> QED BY <1>1, <1>2, <3>1, PlanStillHides
  <2> QED BY <2>1
<1>8. UploadHides(j)'
  <2>1. ASSUME NEW i \in 1..Len(RecordsOf[j])
        PROVE  /\ privacy_plans'[RecordsOf[j][i]] # None
               /\ HiddenIn(RecordsOf[j][i], record[RecordsOf[j][i]].text,
                           privacy_plans[RecordsOf[j][i]])'
    <3> DEFINE r == RecordsOf[j][i]
    <3>1. r \in Mine(j) /\ r \in Record
          BY <1>4, Uploaded DEF Mine
    <3> HIDE DEF r
    <3>2. /\ privacy_plans[r] # None
          /\ record'[r].text = Sanitized(Text[r], privacy_plans[r], people)
          BY <1>1, <3>1 DEF Applies
    <3>3. HiddenIn(r, Sanitized(Text[r], privacy_plans[r], people), privacy_plans[r])
          BY <1>1, <3>1, AppliedHides
    <3>4. \A name : Coded(r, name)' = Coded(r, name)
          BY <1>1 DEF Coded, Of
    <3>5. HiddenIn(r, record[r].text, privacy_plans[r])'
          BY <1>1, <3>2, <3>3, <3>4 DEF HiddenIn
    <3> QED BY <1>1, <3>2, <3>5 DEF r
  <2> QED BY <2>1 DEF UploadHides
<1>9. Shaped'
      BY <1>1 DEF HiddenInv, Shaped
<1> QED BY <1>2, <1>3, <1>5, <1>6, <1>7, <1>8, <1>9, OneHides

-----------------------------------------------------------------------------
(* What those of administrators do. *)

\* A failed job has no worker and releases nothing until it is reviewed again.
LEMMA RetryJobHides ==
    ASSUME PrivacyInv, PrivacyInv', HiddenInv, NEW j \in Upload, RetryJob(j)
    PROVE  HiddenInv'
<1>1. /\ job[j] = "failed" /\ job' = [job EXCEPT ![j] = "running"]
      /\ UNCHANGED <<people, privacy_generation, privacy_plans, privacy_resolutions, record, worker>>
      BY DEF RetryJob, registryVars, reviewVars
<1>2. worker[j] = Idle
      BY <1>1, BusyRuns
<1>3. Ahead
      BY <1>1, QuietProgress, GoesAhead
<1>4. (\A k \in Upload \ {j} : worker'[k] = worker[k] /\ job'[k] = job[k]) /\ job'[j] = "running"
  <2>1. DOMAIN job = Upload
        BY DEF PrivacyInv, Stored
  <2> QED BY <1>1, <2>1
<1>5. WorkerHides(j)' /\ UploadHides(j)'
      BY <1>1, <1>2, <1>4 DEF WorkerHides, UploadHides, Idle
<1>6. \A r \in Record : Spared(r)
      BY <1>1 DEF Spared
<1>7. \A r \in Mine(j) : PlanHides(r)'
  <2>1. Mine(j) \subseteq Record
        BY Uploaded DEF Mine
  <2> QED BY <1>3, <1>6, <2>1, SparedPlan
<1>8. Shaped'
      BY <1>1 DEF HiddenInv, Shaped
<1> QED BY <1>3, <1>4, <1>5, <1>6, <1>7, <1>8, OneHides

\* Whatever an administrator changes for is quarantined, in another generation.
LEMMA DisturbedHides ==
    ASSUME PrivacyInv, PrivacyInv', HiddenInv, NEW S, Disturbed(S), UNCHANGED <<worker, job>>,
           DOMAIN people \subseteq DOMAIN people', privacy_resolutions \subseteq privacy_resolutions'
    PROVE  HiddenInv'
<1>1. /\ privacy_generation \in Nat /\ privacy_generation' = privacy_generation + 1
      /\ privacy_plans' = [r \in Record |-> IF r \in S THEN None ELSE privacy_plans[r]]
      /\ record' = [r \in Record |->
             IF r \in S THEN [record[r] EXCEPT !.quarantined = TRUE] ELSE record[r]]
      BY PrivacyAssumption DEF Disturbed, PrivacyInv, Stored
<1>2. Progress
      BY <1>1 DEF Progress
<1>3. Ahead
      BY <1>2, GoesAhead
<1>4. ASSUME NEW r \in Record
      PROVE  Spared(r) /\ DOMAIN record'[r] = {"quarantined", "text"}
  <2>1. DOMAIN record[r] = {"quarantined", "text"}
        BY DEF HiddenInv, Shaped
  <2>2. CASE r \in S
    <3>1. record'[r] = [record[r] EXCEPT !.quarantined = TRUE] /\ privacy_plans'[r] = None
          BY <1>1, <2>2
    <3>2. record'[r].quarantined = TRUE /\ DOMAIN record'[r] = {"quarantined", "text"}
          BY <2>1, <3>1
    <3> QED BY <3>1, <3>2 DEF Spared
  <2>3. CASE r \notin S
        BY <1>1, <2>1, <2>3 DEF Spared
  <2> QED BY <2>2, <2>3
<1>5. Shaped'
      BY <1>1, <1>4 DEF Shaped
<1> QED BY <1>3, <1>4, <1>5, AllSpared

\* Somebody new is hidden in what is planned from now on; with somebody changed everything
\* is planned again.
LEMMA AssociatePersonHides ==
    ASSUME PrivacyInv, PrivacyInv', HiddenInv, NEW p \in Enrolled \cup DOMAIN people,
           NEW row \in Association, AssociatePerson(p, row)
    PROVE  HiddenInv'
<1>1. /\ people' = [q \in DOMAIN people \cup {p} |-> IF q = p THEN row ELSE people[q]]
      /\ UNCHANGED <<privacy_resolutions, job, worker>>
      BY DEF AssociatePerson
<1>2. CASE p \in DOMAIN people
  <2>1. Disturbed(Record)
        BY <1>2 DEF AssociatePerson
  <2> QED BY <1>1, <2>1, DisturbedHides
<1>3. CASE p \notin DOMAIN people
  <2>1. UNCHANGED <<privacy_generation, privacy_plans, record>>
        BY <1>3 DEF AssociatePerson
  <2>2. privacy_generation \in Nat
        BY PrivacyAssumption DEF PrivacyInv, Stored
  <2>3. Progress
        BY <1>1, <1>3, <2>1, <2>2 DEF Progress, Extends
  <2>4. Ahead
        BY <2>3, GoesAhead
  <2>5. (\A r \in Record : Spared(r)) /\ Shaped'
        BY <2>1 DEF Spared, HiddenInv, Shaped
  <2> QED BY <1>1, <2>4, <2>5, AllSpared
<1> QED BY <1>2, <1>3

\* An administrator decides.
LEMMA ResolveDiagnosticHides ==
    ASSUME PrivacyInv, PrivacyInv', HiddenInv, NEW d \in privacy_diagnostics, NEW decision,
           ResolveDiagnostic(d, decision)
    PROVE  HiddenInv'
<1>1. /\ Disturbed({d.record}) /\ UNCHANGED <<people, worker, job>>
      /\ privacy_resolutions \subseteq privacy_resolutions'
      BY DEF ResolveDiagnostic
<1> QED BY <1>1, DisturbedHides

-----------------------------------------------------------------------------
(* The theorems about texts. *)

\* Nothing is released yet.
LEMMA InitHidden ==
    ASSUME Init
    PROVE  HiddenInv
<1>1. ASSUME NEW j \in Upload PROVE WorkerHides(j) /\ UploadHides(j)
      BY DEF Init, WorkerHides, UploadHides, Idle
<1>2. ASSUME NEW r \in Record PROVE PlanHides(r) /\ DOMAIN record[r] = {"quarantined", "text"}
      BY DEF Init, PlanHides
<1>3. DOMAIN record = Record
      BY DEF Init
<1> QED BY <1>1, <1>2, <1>3 DEF HiddenInv, Shaped

\* Each step keeps hidden what is.
LEMMA StepHidden ==
    ASSUME PrivacyInv, PrivacyInv', HiddenInv, [Next]_vars
    PROVE  HiddenInv'
<1>1. ASSUME NEW j \in Upload, Work(j) \/ Crash(j) \/ RetryJob(j)
      PROVE  HiddenInv'
      BY <1>1, ReadPrivateHides, LookHides, PlanRecordHides, PersistHides, ApplyHides,
         StopHides, RetryJobHides DEF Work
<1>2. ASSUME NEW p \in Enrolled \cup DOMAIN people, NEW row \in Association,
             AssociatePerson(p, row)
      PROVE  HiddenInv'
      BY <1>2, AssociatePersonHides
<1>3. ASSUME NEW d \in privacy_diagnostics, NEW decision \in Offered(d.kind),
             ResolveDiagnostic(d, decision)
      PROVE  HiddenInv'
      BY <1>3, ResolveDiagnosticHides
<1>4. CASE UNCHANGED vars
  <2>1. UNCHANGED <<people, privacy_generation, privacy_plans, privacy_resolutions, record, job,
                    worker>>
        BY <1>4 DEF vars, registryVars, reviewVars
  <2>2. Ahead
        BY <2>1, QuietProgress, GoesAhead
  <2>3. (\A r \in Record : Spared(r)) /\ Shaped'
        BY <2>1 DEF Spared, HiddenInv, Shaped
  <2> QED BY <2>1, <2>2, <2>3, AllSpared
<1> QED BY <1>1, <1>2, <1>3, <1>4 DEF Next

\* Whoever the registry held when the review of an upload began is hidden in the records it
\* released, whatever the mapper answered and whoever came in between: the last rounds of
\* the closure plan each record with everybody, persist keeps what they edit, and whatever
\* changes a person quarantines the record or leaves its plan behind a generation.
THEOREM KnownNamesStayHidden == Spec => []KnownNamesHidden
<1>1. Init => HiddenInv
      BY InitHidden
<1>2. PrivacyInv /\ PrivacyInv' /\ HiddenInv /\ [Next]_vars => HiddenInv'
      BY StepHidden
<1>3. HiddenInv => KnownNamesHidden
  <2> SUFFICES ASSUME HiddenInv, NEW j \in Upload, job[j] = "privacy_ready",
                      NEW i \in DOMAIN RecordsOf[j], Released(RecordsOf[j][i])
               PROVE  HiddenIn(RecordsOf[j][i], record[RecordsOf[j][i]].text,
                               privacy_plans[RecordsOf[j][i]])
      BY DEF KnownNamesHidden
  <2>1. i \in 1..Len(RecordsOf[j]) /\ UploadHides(j)
        BY Uploaded DEF HiddenInv
  <2> QED BY <2>1 DEF UploadHides
<1> QED BY <1>1, <1>2, <1>3, PrivacyInvariant, PTL DEF Spec

\* What is not planned leaves normalize without an alias of anybody, and bound only to people
\* that no other of the same alias can be meant instead of, in every registry that uploads
\* and administrators make: an alias that still stands in the result stood in the text, where
\* it would have been replaced.
THEOREM NormalizeNeverMistaken == Spec => []NormalizeNeverGuesses
<1>1. ASSUME PrivacyInv, NEW r \in Record
      PROVE  /\ \A p \in DOMAIN people :
                    Matches(Normalize(Text[r], people).text, Aliases(people[p])) = {}
             /\ \A p \in Normalize(Text[r], people).person_ids :
                    \E w \in Aliases(people[p]) :
                        /\ Matches(Text[r], {w}) # {}
                        /\ CalledBy(people, w) = {p}
                               \/ {q \in CalledBy(people, w) :
                                      Matches(Text[r], people[q].contacts) # {}} = {p}
  <2> DEFINE W == UNION {{Text[r][i] : i \in DOMAIN Text[r]}}
             text == Text[r]
  <2>1. Rows(people)
        BY <1>1 DEF PrivacyInv, Stored
  <2>2. text \in Seq(W)
        BY PrivacyAssumption
  <2>3. IsFiniteSet(DOMAIN people)
        BY <2>1, MarkerAssumption, FS_Subset DEF Rows
  <2> HIDE DEF W, text
  <2>4. \A p \in DOMAIN people : Matches(Normalize(text, people).text, Aliases(people[p])) = {}
        BY <2>1, <2>2, NormalizeHides
  <2>5. ASSUME NEW p \in Normalize(text, people).person_ids
        PROVE  \E w \in Aliases(people[p]) :
                   /\ Matches(text, {w}) # {}
                   /\ \/ CalledBy(people, w) = {p}
                      \/ {q \in CalledBy(people, w) :
                             Matches(text, people[q].contacts) # {}} = {p}
        BY <2>3, NormalizeBindsOne
  <2> QED BY <2>4, <2>5 DEF text
<1>2. PrivacyInv => NormalizeNeverGuesses
      BY <1>1 DEF NormalizeNeverGuesses
<1> QED BY <1>2, PrivacyInvariant, PTL
=============================================================================
