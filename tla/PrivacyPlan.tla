---------------------------- MODULE PrivacyPlan ----------------------------
(***************************************************************************)
(* What one pass of the privacy agent makes of one text: PrivacyAgent of   *)
(* evidence/privacy.py with the local detector in place, normalize, and    *)
(* what Jobs.prepare_ingestion does with the plan.                         *)
(*                                                                         *)
(* A text is a sequence of words and a range [start, end) of it names the  *)
(* words between.  What the patterns EMAIL, PHONE and _personal_id match,  *)
(* and what has the shape of a name, are sets of word sequences, so that   *)
(* matches lie inside, beside and across each other as they do in the      *)
(* code.  Everything the agent returns is source-bound and certain: its    *)
(* branches for uncertain entities are dead.  Postal addresses, which only *)
(* the language model finds, are left out.                                 *)
(***************************************************************************)
EXTENDS Naturals, Sequences, FiniteSets

CONSTANTS
    Name,        \* word sequences looks_like_person accepts
    Contact,     \* word sequences EMAIL or PHONE matches
    PersonalId,  \* word sequences _personal_id matches
    Initials,    \* Initials[n]: the derived forms of a full name, as one word
    Identifier,  \* person identifiers
    Proposed,    \* Proposed[n]: the identifier that the hash of a proposal for n gives
    Supports,    \* pairs <<n, c>>: the contact c is spelled after the name n
    Plausible,   \* BOUND: pairs <<w, n>>: the mapper may take the words w for somebody named n
    Removed,     \* "[contact removed]" and "[personal identifier removed]"
    Ambiguous,   \* "[ambiguous person]"
    None         \* no identity hint

ASSUME TextAssumption ==
    /\ \A n \in Name \cup Contact \cup PersonalId : n \in Seq(UNION {{n[i] : i \in DOMAIN n}}) /\ n # <<>>
    /\ Proposed \in [Name -> Identifier]
    /\ \A n, m \in Name : Proposed[n] = Proposed[m] => n = m
    /\ None \notin Identifier
    /\ Name \cap Contact = {}

\* Identifiers, PERSON_ and sixteen hexadecimal digits, and what is put for a removed word
\* have characters that no word of a name and no address has.
ASSUME MarkerAssumption ==
    /\ IsFiniteSet(Identifier)
    /\ \A n \in Name \cup Contact : \A i \in DOMAIN n :
           n[i] \notin Identifier \cup {Removed, Ambiguous}

\* A person of the registry (Person), and the ranges of a text.
PersonRow == [display_name : Name, contacts : SUBSET Contact]

Ranges(text) == {r \in [start : 0..Len(text), end : 0..Len(text)] : r.start < r.end}
Words(text, r) == SubSeq(text, r.start + 1, r.end)
RangeOf(e) == [start |-> e.start, end |-> e.end]
Covers(a, b) == a.start <= b.start /\ b.end <= a.end
Overlap(a, b) == a.start < b.end /\ b.start < a.end
Matches(text, forms) == {r \in Ranges(text) : Words(text, r) \in forms}

IsFull(n) == Len(n) > 1
First(n) == <<n[1]>>
Variants(n) == {n} \cup (IF IsFull(n) THEN {Initials[n]} ELSE {})
References(n) == IF IsFull(n) THEN {First(n), <<n[Len(n)]>>, Initials[n]} ELSE {}

\* The people whose row relates to some words in one of the ways the code compares them.
Aliases(row) == {row.display_name} \cup row.contacts
CalledBy(people, words) == {p \in DOMAIN people : words \in Aliases(people[p])}
NamedBy(people, words) == {p \in DOMAIN people : words \in Variants(people[p].display_name)}
FirstNamedBy(people, words) ==
    {p \in DOMAIN people : IsFull(people[p].display_name) /\ words = First(people[p].display_name)}
ReferredBy(people, words) ==
    {p \in DOMAIN people : words \in References(people[p].display_name)}

The(S) == CHOOSE x \in S : TRUE

---------------------------------------------------------------------------
(* One pass over one text.  A hint is a person, a name (the hint NEW_ of a proposal for it)
   or None.  A resolution is a decision of an administrator about one range. *)

Hint == Identifier \cup Name \cup {None}
Entity(text) ==
    {e \in [start : 0..Len(text), end : 0..Len(text),
            kind : {"person", "contact", "personal_identifier"}, hint : Hint] : e.start < e.end}

\* What the mapper is asked about: what a pattern matches or is a form of a registered
\* name, and what the detector finds.  A name it does not find is one called "other".
Candidates(text, people) ==
    Matches(text, Name \cup Contact \cup PersonalId)
        \cup Matches(text, UNION {Variants(people[p].display_name) : p \in DOMAIN people})

\* The mapper decides each candidate once.  A hint it makes up is as good as none.
Decision(people, words) ==
    [kind : {"person", "contact", "other"},
     hint : {p \in DOMAIN people : <<words, people[p].display_name>> \in Plausible} \cup {None}]

\* The entity a decision stands for, with its identity as far as the words support it.
Labelled(text, r, decision, people) ==
    LET words  == Words(text, r)
        owners == NamedBy(people, words)
        kind   == IF Cardinality(owners) = 1 THEN "person" ELSE decision.kind
        hint   == CASE Cardinality(owners) = 1 -> The(owners)
                    [] kind = "person" -> IF decision.hint = None THEN words ELSE decision.hint
                    [] kind = "contact" /\ decision.hint # None ->
                           IF <<people[decision.hint].display_name, words>> \in Supports
                           THEN decision.hint ELSE None
                    [] OTHER -> None
    IN  [start |-> r.start, end |-> r.end, kind |-> kind, hint |-> hint]

\* _filter_model_entities
HasShape(text, e) ==
    \/ e.kind = "person" /\ Words(text, e) \in Name
    \/ e.kind = "contact" /\ Words(text, e) \in Contact

Plain(r, kind, hint) == [start |-> r.start, end |-> r.end, kind |-> kind, hint |-> hint]

\* _enforce_deterministic_entities
Deterministic(text, entities) ==
    {e \in entities : RangeOf(e) \notin Matches(text, PersonalId)}
        \cup {Plain(r, "contact", None) :
                 r \in Matches(text, Contact) \ {RangeOf(e) : e \in entities}}
        \cup {Plain(r, "personal_identifier", None) : r \in Matches(text, PersonalId)}

\* _enforce_known_people, _enforce_known_contacts
Known(text, people) ==
    {Plain(r, "person", The(CalledBy(people, Words(text, r)))) :
        r \in {q \in Matches(text, {people[p].display_name : p \in DOMAIN people}) :
                  Cardinality({p \in DOMAIN people :
                                  people[p].display_name = Words(text, q)}) = 1}}
    \cup UNION {{Plain(r, "contact", p) : r \in Matches(text, people[p].contacts)} :
                   p \in DOMAIN people}

\* _dedupe_entities: of two entities for one range the first, unless only the second is
\* bound to somebody.
Deduplicated(first, second) ==
    LET better(e) == {f \in second : RangeOf(f) = RangeOf(e) /\ f.hint # None /\ e.hint = None}
        added == {f \in second : RangeOf(f) \notin {RangeOf(e) : e \in first}}
    IN  {IF better(e) = {} THEN e ELSE The(better(e)) : e \in first}
            \cup {The({f \in added : RangeOf(f) = r}) : r \in {RangeOf(f) : f \in added}}

\* _collapse_nested_identity_entities
Collapsed(entities) ==
    {e \in entities : ~ \E f \in entities :
        /\ RangeOf(f) # RangeOf(e)
        /\ Covers(f, e)
        /\ f.kind # "person" \/ e.kind = "person"}

\* _bind_known_identities
Bound(text, e, people) ==
    LET words == Words(text, e)
        full  == NamedBy(people, words) \cup CalledBy(people, words)
        owners == IF full # {} THEN full ELSE FirstNamedBy(people, words)
    IN  IF e.kind = "person" /\ Cardinality(owners) = 1
        THEN [e EXCEPT !.hint = The(owners)] ELSE e

\* The first half of _validate_batch: from the labels the mapper gives to the entities.
Entities(text, labels, people) ==
    LET all == Deduplicated(Deterministic(text, labels), Known(text, people))
    IN  {Bound(text, e, people) : e \in Collapsed(all)}

\* PrivacyAgent.plan: for each candidate what is left of one decision on it.
Labels(text, people) ==
    LET labelled(r) == {Labelled(text, r, d, people) : d \in Decision(people, Words(text, r))}
        shaped      == {e \in UNION {labelled(r) : r \in Candidates(text, people)} :
                           HasShape(text, e)}
    IN  {L \in SUBSET shaped :
            \A r \in Candidates(text, people) :
                \E e \in labelled(r) :
                    {l \in L : RangeOf(l) = r} = {l \in {e} : HasShape(text, l)}}

\* _compile_edits: an entity is edited unless it was resolved to be a system code.
Exempt(resolutions, e) ==
    \E x \in resolutions : RangeOf(x) = RangeOf(e) /\ x.decision = "system_code"
Edits(entities, resolutions) == {RangeOf(e) : e \in {f \in entities : ~Exempt(resolutions, f)}}

\* The decisions of administrators, and what a plan has to do for each.
Classes == {"system_code", "contact", "personal_identifier"}
Applied(entities, edits, x) ==
    \E e \in entities :
        /\ RangeOf(e) = RangeOf(x)
        /\ \/ x.decision \in Identifier /\ e.kind = "person" /\ e.hint = x.decision
           \/ x.decision = e.kind /\ e.kind # "person"
           \/ x.decision = "system_code" /\ e.kind = "personal_identifier"
        /\ x.decision = "system_code" <=> RangeOf(e) \notin edits

\* _validate_resolutions
Usable(resolutions, people) ==
    \A x \in resolutions : x.decision \in Classes \cup DOMAIN people

\* The second half of _validate_batch: what it accepts.  Of several decisions about one
\* range the one that is read last has to be met, and they are read in any order.
Applicable(edits) == \A r, q \in edits : r # q => ~Overlap(r, q)

Acceptable(text, entities, resolutions) ==
    LET edits == Edits(entities, resolutions)
    IN  /\ Applicable(edits)
        /\ \A e \in entities : RangeOf(e) \notin edits => e.kind = "personal_identifier"
        /\ \A x \in resolutions :
               \E y \in resolutions : RangeOf(y) = RangeOf(x) /\ Applied(entities, edits, y)
        /\ \A r \in Matches(text, Contact) :
               \E e \in entities : e.kind = "contact" /\ Covers(e, r)
        /\ \A r \in Matches(text, PersonalId) :
               \E e \in entities : e.kind = "personal_identifier" /\ Covers(e, r)

\* PrivacyAgent.plan: the plans the validation accepts.
Plans(text, people, resolutions) ==
    {[entities |-> E, edits |-> Edits(E, resolutions)] :
        E \in {F \in {Entities(text, l, people) : l \in Labels(text, people)} :
                  Usable(resolutions, people) /\ Acceptable(text, F, resolutions)}}

\* _merge_privacy_plans: by range, what the current pass found before the previous ones.
Merged(previous, current) ==
    [current EXCEPT
        !.entities = @ \cup {e \in previous.entities :
                                 RangeOf(e) \notin {RangeOf(f) : f \in current.entities}},
        !.edits = @ \cup previous.edits]

---------------------------------------------------------------------------
(* Identities: what a plan adds to the registry. *)

IsProposal(e) == e.kind = "person" /\ e.hint \in Name

\* Mutant of WithPeople: a proposal is filed under its hint.
WithHints(people, found) ==
    [p \in DOMAIN people \cup {f.hint : f \in found} |->
        IF p \in DOMAIN people THEN people[p]
        ELSE [display_name |-> (CHOOSE f \in found : f.hint = p).words, contacts |-> {}]]

\* The people found, each with its words and its hint, are filed under the identifier of
\* the hint.
WithPeople(people, found) ==
    [p \in DOMAIN people \cup {Proposed[f.hint] : f \in found} |->
        IF p \in DOMAIN people THEN people[p]
        ELSE [display_name |-> (CHOOSE f \in found : Proposed[f.hint] = p).words,
              contacts |-> {}]]

\* Mutant of Named: the exact name is not looked up.
NamedByReference(people, words) == IF IsFull(words) THEN {} ELSE ReferredBy(people, words)

\* Whom a proposal can mean: the exact alias, or for one word a reference to a full name.
Named(people, words) ==
    IF CalledBy(people, words) # {} THEN CalledBy(people, words)
    ELSE IF IsFull(words) THEN {} ELSE ReferredBy(people, words)

\* _register_identity_proposals.  Full names come first, so that a first name of the same
\* text finds the person; whoever could be two people stays a proposal.
Registered(text, plan, people) ==
    LET proposed == {Words(text, e) : e \in {f \in plan.entities : IsProposal(f)}}
        full     == {w \in proposed : IsFull(w)}
        fullOf(w) == {f \in full : w \in References(f)}
        hint     == [w \in proposed |->
                        IF ~IsFull(w) /\ Cardinality(fullOf(w)) = 1 THEN The(fullOf(w)) ELSE w]
        found(W) == {[hint |-> hint[w], words |-> w] : w \in W}
        named    == WithPeople(people, found({w \in full : CalledBy(people, w) = {}}))
        all      == WithPeople(named, found({w \in proposed : Named(named, w) = {}}))
        identity(w) == CASE Named(named, w) = {} -> Proposed[hint[w]]
                         [] Cardinality(Named(named, w)) = 1 -> The(Named(named, w))
                         [] OTHER -> hint[w]
        bind(e)  == IF IsProposal(e) THEN [e EXCEPT !.hint = identity(Words(text, e))] ELSE e
        entities == {bind(e) : e \in plan.entities}
    IN  [plan    |-> [plan EXCEPT !.entities = entities],
         people  |-> [p \in DOMAIN all |-> [all[p] EXCEPT !.contacts = @ \cup
                         {Words(text, e) : e \in {f \in entities : f.kind = "contact" /\ f.hint = p}}]],
         created |-> DOMAIN all # DOMAIN people]

---------------------------------------------------------------------------
(* The sanitized text. *)

\* From left to right, the longest of the pieces that start at one place.
Rewritten(text, edits, piece) ==
    LET at(i) == {e \in edits : e.start = i}
        longest(i) == CHOOSE e \in at(i) : \A f \in at(i) : f.end <= e.end
        from[i \in 0..Len(text)] ==
            IF i = Len(text) THEN <<>>
            ELSE IF at(i) = {} THEN <<text[i + 1]>> \o from[i + 1]
            ELSE <<piece[longest(i)]>> \o from[longest(i).end]
    IN  from[0]

\* Edits are applied from the right.  Where two overlap (plans are not Applicable once
\* merged), the second no longer finds its words.
Sanitized(text, plan, people) ==
    LET edited == {e \in plan.entities : RangeOf(e) \in plan.edits}
    IN  Rewritten(text, edited,
            [e \in edited |-> IF e.hint \in DOMAIN people THEN e.hint ELSE Removed])

\* validate_sanitized: nothing a pattern matches is left but what is exempt.
Clean(text, plan, resolutions, people) ==
    LET result == Sanitized(text, plan, people)
        codes  == {Words(text, x) : x \in {y \in resolutions : y.decision = "system_code"}}
    IN  /\ Matches(result, Contact) = {}
        /\ \A r \in Matches(result, PersonalId) : Words(result, r) \in codes

---------------------------------------------------------------------------
(* normalize: the aliases of registered people in a text that is not planned, such as a
   question, a message or a file name.  A contact decides between two of the same name. *)

\* Mutant of Choice: the first of those with the name.
FirstOwner(text, people, words) == The(CalledBy(people, words))

Choice(text, people, words) ==
    LET owners == CalledBy(people, words)
        supported == {p \in owners : Matches(text, people[p].contacts) # {}}
    IN  CASE Cardinality(owners) = 1 -> The(owners)
          [] Cardinality(supported) = 1 -> The(supported)
          [] OTHER -> Ambiguous

Normalize(text, people) ==
    LET found    == {Plain(r, "person", Choice(text, people, Words(text, r))) :
                        r \in Matches(text, UNION {Aliases(people[p]) : p \in DOMAIN people})}
        named    == Rewritten(text, found, [e \in found |-> e.hint])
        contacts == Matches(named, Contact)
    IN  [text       |-> Rewritten(named, contacts, [r \in contacts |-> Removed]),
         person_ids |-> {e.hint : e \in found} \ {Ambiguous},
         ambiguous  |-> contacts # {} \/ \E e \in found : e.hint = Ambiguous]
=============================================================================
