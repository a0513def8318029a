----------------------------- MODULE RuntimeTemplate -----------------------------
(* The comparison of a deployed runtime with a reviewed compiler template:    *)
(* the slots the compiler declares as immutables or library links are checked *)
(* for the values they must hold and masked, and everything else must be the  *)
(* template's own bytes.  A runtime is a sequence of cells: an immutable      *)
(* fills a word of two cells, padding and an address; a link fills one.       *)
EXTENDS Integers, Sequences, FiniteSets

\* The cells of an immutable word and of a linked address.
WordLength == 2
LinkLength == 1

\* REVIEWED_COMPILER_SETTINGS: the one compiler and its one set of options.
ReviewedSettings == "reviewed compiler settings"

Cells(r) == r.start..r.start + r.length - 1

Slice(code, r) == SubSeq(code, r.start, r.start + r.length - 1)

\* The references of a group are ranges; a link group carries its library's name.
ImmutableGroups(artifact) == {[kind |-> "immutable", id |-> "", references |-> g] : g \in artifact.immutables}

LinkGroups(artifact) == {[kind |-> "link", id |-> l, references |-> artifact.links[l]] : l \in DOMAIN artifact.links}

Groups(artifact) == ImmutableGroups(artifact) \cup LinkGroups(artifact)

\* The layout hash: the ranges and their grouping, and the libraries by name.
ReferenceLayout(artifact) == [immutables |-> artifact.immutables, links |-> artifact.links]

AssertCompilerSettings(artifact, target) ==
  artifact.settings = ReviewedSettings /\ artifact.target = target

References(groups) == UNION {g.references : g \in groups}

Disjoint(groups) ==
  /\ \A r, q \in References(groups) : r # q => Cells(r) \cap Cells(q) = {}
  /\ \A g, h \in groups : g # h => g.references \cap h.references = {}

\* Every declared slot lies in the code, and a group's slots hold one value.
WellFormed(groups, code) ==
  /\ Disjoint(groups)
  /\ \A g \in groups :
       /\ g.references # {}
       /\ \A r \in g.references :
            /\ r.start > 0 /\ r.length > 0
            /\ r.start + r.length - 1 <= Len(code)
            /\ r.length = IF g.kind = "link" THEN LinkLength ELSE WordLength
       /\ \A r, q \in g.references : Slice(code, r) = Slice(code, q)

ValueOf(group, code) == Slice(code, CHOOSE r \in group.references : TRUE)

Masked(groups, code) ==
  [i \in DOMAIN code |-> IF \E r \in References(groups) : i \in Cells(r) THEN 0 ELSE code[i]]

\* The immutables' values are the expected ones, in any order.
SameImmutables(groups, code, expected) ==
  LET addressOf(g) == ValueOf(g, code)[WordLength]
      immutables == {g \in groups : g.kind = "immutable"}
  IN /\ \A g \in immutables : ValueOf(g, code)[1] = 0 /\ addressOf(g) # 0
     /\ Cardinality(immutables) = Len(expected)
     /\ \A a \in {addressOf(g) : g \in immutables} :
          Cardinality({g \in immutables : addressOf(g) = a}) = Cardinality({i \in DOMAIN expected : expected[i] = a})

SameLinks(groups, code, expected) ==
  /\ {g.id : g \in {l \in groups : l.kind = "link"}} = DOMAIN expected
  /\ \A g \in groups : g.kind = "link" => ValueOf(g, code) = <<expected[g.id]>>

\* want: the target, the anchors of the review, and the addresses the slots must hold.
ValidateReviewedRuntime(artifact, code, want) ==
  LET groups == Groups(artifact)
      template == artifact.object
  IN /\ AssertCompilerSettings(artifact, want.target)
     /\ Len(code) = Len(template)
     /\ ReferenceLayout(artifact) = want.layout
     /\ WellFormed(groups, code)
     /\ \A g \in ImmutableGroups(artifact) : \A r \in g.references : \A i \in Cells(r) : template[i] = 0
     /\ SameLinks(groups, code, want.links)
     /\ SameImmutables(groups, code, want.immutables)
     /\ Masked(groups, template) = want.template
     /\ Masked(groups, template) = Masked(groups, code)

-----------------------------------------------------------------------------
(* The runtimes of the second utility release: no links, and immutables that  *)
(* are times as well as addresses, so whole words are compared.               *)

SameWords(groups, code, expected) ==
  /\ Cardinality(groups) = Len(expected)
  /\ \A w \in {ValueOf(g, code) : g \in groups} :
       Cardinality({g \in groups : ValueOf(g, code) = w}) = Cardinality({i \in DOMAIN expected : expected[i] = w})

ValidateReviewedUtilityV2Runtime(artifact, code, want) ==
  LET groups == ImmutableGroups(artifact)
      template == artifact.object
  IN /\ AssertCompilerSettings(artifact, want.target)
     /\ DOMAIN artifact.links = {}
     /\ Len(code) = Len(template)
     /\ ReferenceLayout(artifact) = want.layout
     /\ WellFormed(groups, code)
     /\ \A g \in groups : \A r \in g.references : \A i \in Cells(r) : template[i] = 0
     /\ SameWords(groups, code, want.words)
     /\ Masked(groups, template) = want.template
     /\ Masked(groups, template) = Masked(groups, code)

=============================================================================
