---------------------------- MODULE SearchParams ----------------------------
(***************************************************************************)
(* The filters of a page, its order and its number are search parameters   *)
(* of the URL.  Buttons change them at once; an input keeps its own text   *)
(* and hands it to the URL when the user has paused.  Whatever changes     *)
(* them starts from the parameters of the last render, the router's own    *)
(* may be newer, and Back restores older ones.                             *)
(***************************************************************************)
EXTENDS Naturals, Sequences, SequencesExt

CONSTANTS Inputs,    \* parameters with an input: search, branch
          Following, \* those whose input follows the URL; that of the runs does not
          Buttons,   \* parameters with buttons: category, status, sortBy, days
          Values,    \* among them the empty one
          Empty,
          LastPage,
          MaxEvents  \* bound: things the user does

SearchParamsAssumption ==
  /\ Following \subseteq Inputs /\ Inputs \cap Buttons = {} /\ Empty \in Values
  /\ LastPage \in Nat \ {0} /\ MaxEvents \in Nat

VARIABLES
  url,        \* of the router
  past,       \* the entries behind it
  rendered,   \* the parameters of the last render
  text,       \* [Inputs -> localValue]
  timer,      \* inputs with a timer of debounceRef
  debouncing, \* inputs with isDebouncing
  unseen,     \* history: a change has been undone before the page rendered it
  events

vars == <<url, past, rendered, text, timer, debouncing, unseen, events>>

\* The parameters, and, as history, the filters that were shown when the page was chosen.
Filters == [Inputs \cup Buttons -> Values]
Entries == [filters : Filters, page : 1 .. LastPage, chosenFor : Filters]

Event == events < MaxEvents /\ events' = events + 1

\* navigate: the next render shows the entry, if it is another one than it shows now.
Navigate(entry) ==
  url' = entry /\ unseen' = (unseen \/ (rendered # url /\ entry = rendered))
Push(entry) == Navigate(entry) /\ past' = Append(past, url)

\* Mutant: the page stays where it is.
WithFilterOnPage(entry, p, v) == [entry EXCEPT !.filters[p] = v]

\* next.set or next.delete of a filter, and next.delete('page').
WithFilter(entry, p, v) == [entry EXCEPT !.filters[p] = v, !.page = 1]

-----------------------------------------------------------------------------
(* The user *)

\* The input renders at once; the effect starts its timer anew.
Type(p, v) ==
  /\ Event /\ v # text[p] /\ text' = [text EXCEPT ![p] = v]
  /\ IF v = rendered.filters[p] THEN timer' = timer \ {p} /\ UNCHANGED debouncing
     ELSE timer' = timer \cup {p} /\ debouncing' = debouncing \cup ({p} \cap Following)
  /\ UNCHANGED <<url, past, rendered, unseen>>

\* useUpdateParam, handleSort and setDays.
Click(p, v) ==
  /\ Event /\ Push(WithFilter(rendered, p, v))
  /\ UNCHANGED <<rendered, text, timer, debouncing>>

TurnTo(n) ==
  /\ Event /\ Push([rendered EXCEPT !.page = n, !.chosenFor = rendered.filters])
  /\ UNCHANGED <<rendered, text, timer, debouncing>>

Back ==
  /\ Event /\ past # <<>> /\ Navigate(Last(past)) /\ past' = Front(past)
  /\ UNCHANGED <<rendered, text, timer, debouncing>>

-----------------------------------------------------------------------------
(* The hooks *)

Fire(p) ==
  /\ p \in timer /\ timer' = timer \ {p} /\ debouncing' = debouncing \ {p}
  /\ Push(WithFilter(rendered, p, text[p]))
  /\ UNCHANGED <<rendered, text, events>>

\* The effects after a render with other parameters.  Both see the text of that render: a
\* text that follows the URL has already made its input debounce, and so the input does not
\* follow the next change.
Render ==
  /\ rendered # url /\ rendered' = url
  /\ LET differ  == {p \in Inputs : text[p] # url.filters[p]}
         follows == {p \in Following \ debouncing : rendered.filters[p] # url.filters[p]}
     IN  /\ text' = [p \in Inputs |-> IF p \in follows THEN url.filters[p] ELSE text[p]]
         /\ debouncing' = debouncing \cup (differ \cap Following)
         /\ timer' = differ \ follows
  /\ UNCHANGED <<url, past, unseen, events>>

NoFilter == [p \in Inputs \cup Buttons |-> Empty]

Init ==
  /\ url = [filters |-> NoFilter, page |-> 1, chosenFor |-> NoFilter] /\ past = <<>>
  /\ rendered = url /\ text = [p \in Inputs |-> Empty]
  /\ timer = {} /\ debouncing = {} /\ unseen = FALSE /\ events = 0

Next ==
  \/ \E p \in Inputs, v \in Values : Type(p, v)
  \/ \E p \in Buttons, v \in Values : Click(p, v)
  \/ \E n \in 1 .. LastPage : TurnTo(n)
  \/ Back \/ Render
  \/ \E p \in Inputs : Fire(p)

Spec == Init /\ [][Next]_vars

-----------------------------------------------------------------------------
TypeOK ==
  /\ url \in Entries /\ rendered \in Entries /\ past \in Seq(Entries)
  /\ text \in [Inputs -> Values] /\ timer \subseteq Inputs /\ debouncing \subseteq Inputs /\ unseen \in BOOLEAN
  /\ events \in 0 .. MaxEvents

\* No number of a page outlives the filters it was chosen for, though two timers and the
\* buttons all write over the parameters of an older render.
PageOfItsFilters ==
  \A e \in {url, rendered} \cup ToSet(past) : e.page # 1 => e.chosenFor = e.filters

\* What an input shows is what the list is filtered by, or a timer will make it so: also
\* after the change of one input was lost to that of another.  Only a change that a click, a
\* timer or Back undoes before it is rendered leaves a text that nothing pushes any more.
InputsReachUrl ==
  rendered = url /\ ~unseen => \A p \in Inputs \ timer : text[p] = url.filters[p]

ParametersAgree == PageOfItsFilters /\ InputsReachUrl
=============================================================================
