---------------------------- MODULE HomepageLayout ----------------------------
(***************************************************************************)
(* The sections of the homepage (internal/content/homepage_section.go):    *)
(* servers that start and fill the table with the default sections when    *)
(* they count none, and editors who add, change, remove and reorder them,  *)
(* each statement committed on its own, the batch of a reordering as one.  *)
(*                                                                         *)
(* A section is named by its key; a request that names one by an id that   *)
(* is gone has NoKey in its place.                                         *)
(***************************************************************************)
EXTENDS Naturals, Sequences, FiniteSets

CONSTANTS DefaultKeys,  \* the keys of the default sections, in their order
          OtherKeys,    \* keys of sections that only editors add
          Editor, Server,
          NoEditor, NoKey,
          MaxOrder,     \* bound: sort_order
          MaxEdits      \* bound: edits and failures

Keys == {DefaultKeys[i] : i \in DOMAIN DefaultKeys} \cup OtherKeys

ASSUME LayoutAssumption ==
    /\ NoEditor \notin Editor
    /\ DefaultKeys \in Seq(Keys) /\ IsFiniteSet(Keys) /\ Keys # {} /\ NoKey \notin Keys
    /\ MaxOrder \in Nat /\ MaxEdits \in Nat /\ Len(DefaultKeys) <= MaxOrder

VARIABLES layout,     \* layout[k]: the section's sort_order, 0 when there is none
          dressed,    \* sections whose title and switches an editor has changed
          configured, \* sections whose settings an editor has changed
          moving,     \* moving[k]: the reordering that has written the row and not ended
          editor,     \* what each editor's request is doing
          starter,    \* what each starting server is doing
          lastAsked,  \* history: the order asked for last, NoKey for what it no longer
                      \* speaks of
          removed,    \* history: sections that an editor removed, and none added again
          blindStart, \* history: a start has counted no section
          edits

layoutVars == <<layout, dressed, configured, moving, editor, starter, lastAsked, removed,
                blindStart, edits>>

Present == {k \in Keys : layout[k] # 0}
AtDesk == [phase |-> "idle", order |-> 0, keys |-> <<>>, next |-> 1]
\* An order of sections, with NoKey where k was.
WithoutID(k, keys) == [i \in DOMAIN keys |-> IF keys[i] = k THEN NoKey ELSE keys[i]]
Edit == edits < MaxEdits /\ edits' = edits + 1

\* A table that has just been created, or one that a start filled before.
LayoutInit ==
    /\ \E there \in {{}, Keys \ OtherKeys} :
         layout = [k \in Keys |-> IF k \in there THEN CHOOSE i \in DOMAIN DefaultKeys : DefaultKeys[i] = k
                                  ELSE 0]
    /\ dressed = {} /\ configured = {} /\ removed = {} /\ blindStart = FALSE
    /\ moving = [k \in Keys |-> NoEditor]
    /\ editor = [e \in Editor |-> AtDesk]
    /\ starter = [s \in Server |-> 0]
    /\ lastAsked = <<>> /\ edits = 0

(***************************************************************************)
(* A server starts                                                         *)
(***************************************************************************)

\* The default sections that a start writes, one statement after the other, once
\* it has counted none; a count that fails leaves the variable at zero.
EnsureHomepageSchema(s) ==
    /\ starter[s] = 0
    /\ \/ /\ Present = {} /\ UNCHANGED edits
          /\ starter' = [starter EXCEPT ![s] = 1] /\ blindStart' = TRUE
       \/ /\ Present # {} /\ Edit
          /\ starter' = [starter EXCEPT ![s] = 1] /\ blindStart' = TRUE
       \/ /\ Present # {} /\ UNCHANGED <<edits, blindStart>>
          /\ starter' = [starter EXCEPT ![s] = Len(DefaultKeys) + 1]
    /\ UNCHANGED <<layout, dressed, configured, moving, editor, lastAsked, removed>>

\* The upsert of one: title and order are set back, the rest is left.  An error
\* is passed over.
seedDefaultHomepageSections(s) ==
    /\ starter[s] \in DOMAIN DefaultKeys
    /\ LET k == DefaultKeys[starter[s]]
       IN \/ /\ moving[k] = NoEditor
             /\ layout' = [layout EXCEPT ![k] = starter[s]]
             /\ dressed' = dressed \ {k}
             /\ lastAsked' = WithoutID(k, lastAsked)
             /\ UNCHANGED edits
          \/ Edit /\ UNCHANGED <<layout, dressed, lastAsked>>
    /\ starter' = [starter EXCEPT ![s] = @ + 1]
    /\ UNCHANGED <<configured, moving, editor, removed, blindStart>>

\* Then categories and articles: a column that categories lacks, and two
\* statements in one with parameters, make every one of them fail.
SchemaRefuses == {"categories.accent_color", "two statements with parameters"}
SeededContent == {c \in {"categories", "articles"} :
    (IF c = "categories" THEN "categories.accent_color"
     ELSE "two statements with parameters") \notin SchemaRefuses}

\* The schema is there; the server begins to serve, and may start again.
seedComprehensiveContent(s) ==
    /\ starter[s] = Len(DefaultKeys) + 1 /\ SeededContent = {}
    /\ Edit
    /\ starter' = [starter EXCEPT ![s] = 0]
    /\ UNCHANGED <<layout, dressed, configured, moving, editor, lastAsked, removed, blindStart>>

(***************************************************************************)
(* Editing                                                                 *)
(***************************************************************************)
HighestOrder == CHOOSE m \in {layout[k] : k \in Keys} : \A k \in Keys : layout[k] <= m

\* The order sent, or one more than the highest there is; zero when that query
\* fails.
OrderForNew(e) ==
    /\ editor[e].phase = "idle" /\ Edit
    /\ \E order \in {1, HighestOrder + 1} :
         /\ order <= MaxOrder
         /\ editor' = [editor EXCEPT ![e] = [AtDesk EXCEPT !.phase = "creating", !.order = order]]
    /\ UNCHANGED <<layout, dressed, configured, moving, starter, lastAsked, removed, blindStart>>

\* section_key is unique: a second one with it is refused.
CreateHomepageSection(e) ==
    /\ editor[e].phase = "creating"
    /\ \E k \in Keys :
         IF layout[k] # 0 THEN UNCHANGED <<layout, removed>>
         ELSE /\ layout' = [layout EXCEPT ![k] = editor[e].order]
              /\ removed' = removed \ {k}
    /\ editor' = [editor EXCEPT ![e] = AtDesk]
    /\ UNCHANGED <<dressed, configured, moving, starter, lastAsked, blindStart, edits>>

\* A section that is not there is not changed, which is no error.
UpdateHomepageSection(e) ==
    /\ editor[e].phase = "idle" /\ Edit
    /\ \E k \in Present :
         /\ moving[k] = NoEditor
         /\ \/ \E order \in 1 .. MaxOrder :
                 /\ layout' = [layout EXCEPT ![k] = order]
                 /\ lastAsked' = WithoutID(k, lastAsked)
                 /\ UNCHANGED dressed
            \/ dressed' = dressed \cup {k} /\ UNCHANGED <<layout, lastAsked>>
         /\ editor' = [editor EXCEPT ![e] = [AtDesk EXCEPT !.phase = "settings", !.keys = <<k>>]]
    /\ UNCHANGED <<configured, moving, starter, removed, blindStart>>

\* The settings go in a statement of their own, whose error is passed over.
UpdateSettings(e) ==
    /\ editor[e].phase = "settings"
    /\ LET k == editor[e].keys[1]
       IN \/ /\ k \in Present /\ moving[k] = NoEditor
             /\ configured' = configured \cup {k}
          \/ UNCHANGED configured
    /\ editor' = [editor EXCEPT ![e] = AtDesk]
    /\ UNCHANGED <<layout, dressed, moving, starter, lastAsked, removed, blindStart, edits>>

DeleteHomepageSection(e) ==
    /\ editor[e].phase = "idle" /\ Edit
    /\ \E k \in Present :
         /\ moving[k] = NoEditor
         /\ layout' = [layout EXCEPT ![k] = 0]
         /\ dressed' = dressed \ {k} /\ configured' = configured \ {k}
         /\ lastAsked' = WithoutID(k, lastAsked)
         /\ removed' = removed \cup {k}
         /\ editor' = [x \in Editor |-> [editor[x] EXCEPT !.keys = WithoutID(k, @)]]
    /\ UNCHANGED <<moving, starter, blindStart>>

(***************************************************************************)
(* Reordering                                                              *)
(***************************************************************************)

\* What an editor may send: sections it was shown, each once.
Orderings == {q \in UNION {[1 .. n -> Present] : n \in 2 .. Cardinality(Present)} :
                \A i, j \in DOMAIN q : q[i] = q[j] => i = j}

AskReorder(e) ==
    /\ editor[e].phase = "idle" /\ Edit
    /\ \E q \in Orderings :
         editor' = [editor EXCEPT ![e] = [AtDesk EXCEPT !.phase = "moving", !.keys = q]]
    /\ UNCHANGED <<layout, dressed, configured, moving, starter, lastAsked, removed, blindStart>>

NextKey(e) == editor[e].keys[editor[e].next]
Moving(e) == editor[e].phase = "moving" /\ editor[e].next <= Len(editor[e].keys)
Step(e) == editor' = [editor EXCEPT ![e].next = @ + 1]

\* MUTANT of MoveOne: every UPDATE is committed at once.
MoveOneAlone(e) ==
    /\ Moving(e)
    /\ layout' = [k \in Keys |-> IF k = NextKey(e) THEN editor[e].next ELSE layout[k]]
    /\ Step(e)
    /\ UNCHANGED <<dressed, configured, moving, starter, lastAsked, removed, blindStart, edits>>

\* One UPDATE of the batch.  It waits for another reordering that has the row.
MoveOne(e) ==
    /\ Moving(e) /\ (NextKey(e) \in Keys => moving[NextKey(e)] = NoEditor)
    /\ moving' = [k \in Keys |-> IF k = NextKey(e) THEN e ELSE moving[k]]
    /\ Step(e)
    /\ UNCHANGED <<layout, dressed, configured, starter, lastAsked, removed, blindStart, edits>>

Moved(e) == {k \in Keys : moving[k] = e}
LetGo(e) == [k \in Keys |-> IF moving[k] = e THEN NoEditor ELSE moving[k]]
PlaceOf(e, k) == CHOOSE i \in DOMAIN editor[e].keys : editor[e].keys[i] = k

\* The end of the batch commits it.
ReorderHomepageSections(e) ==
    /\ editor[e].phase = "moving" /\ ~Moving(e)
    /\ layout' = [k \in Keys |-> IF k \in Moved(e) THEN PlaceOf(e, k) ELSE layout[k]]
    /\ lastAsked' = editor[e].keys
    /\ moving' = LetGo(e)
    /\ editor' = [editor EXCEPT ![e] = AtDesk]
    /\ UNCHANGED <<dressed, configured, starter, removed, blindStart, edits>>

\* A statement fails, or this one is chosen to end a deadlock of two.
ReorderFails(e) ==
    /\ editor[e].phase = "moving"
    /\ moving' = LetGo(e)
    /\ editor' = [editor EXCEPT ![e] = AtDesk]
    /\ UNCHANGED <<layout, dressed, configured, starter, lastAsked, removed, blindStart, edits>>

StarterStep(s) ==
    EnsureHomepageSchema(s) \/ seedDefaultHomepageSections(s) \/ seedComprehensiveContent(s)
EditorStep(e) ==
    \/ OrderForNew(e) \/ CreateHomepageSection(e) \/ UpdateHomepageSection(e)
    \/ UpdateSettings(e) \/ DeleteHomepageSection(e)
    \/ AskReorder(e) \/ MoveOne(e) \/ ReorderHomepageSections(e) \/ ReorderFails(e)
LayoutNext == (\E s \in Server : StarterStep(s)) \/ (\E e \in Editor : EditorStep(e))
LayoutSpec == LayoutInit /\ [][LayoutNext]_layoutVars

(***************************************************************************)
(* Properties                                                              *)
(***************************************************************************)

\* ListHomepageSections shows k before l.
ListedBefore(k, l) == layout[k] < layout[l]

\* The sections of the reordering that committed last stand in its order, but
\* for those placed anew since, although others were reordering the same rows;
\* and a section that was removed is not back, unless an editor added it or a
\* starting server counted no section.
LayoutAsAsked ==
    /\ \A i, j \in DOMAIN lastAsked :
         i < j /\ NoKey \notin {lastAsked[i], lastAsked[j]} => ListedBefore(lastAsked[i], lastAsked[j])
    /\ ~blindStart => removed \cap Present = {}
=============================================================================
