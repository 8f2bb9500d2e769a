------------------------------ MODULE PolicyForm -----------------------------
(***************************************************************************)
(* The page of the company's rules (SettingsPage.tsx), open in several     *)
(* tabs.  A tab shows a draft, taken once from the cached answer of        *)
(* GET /settings, and saves the rules whose draft differs from what is     *)
(* cached by then.                                                         *)
(***************************************************************************)
EXTENDS Naturals, FiniteSets

CONSTANTS
    Tabs, Rules, Values, None,
    MaxSaves,    \* bound on saves
    Refetches,   \* the rules may be asked for again while an older answer is cached
    Returns      \* the page may be opened again while its save is under way

VARIABLES
    policy,   \* the row of the server
    pages,    \* by tab: whether the page is open, its draft, the cached answer and what is under way
    chosen,   \* history: the last value somebody chose for each rule
    saves

vars == <<policy, pages, chosen, saves>>

Policies == [Rules -> Values]

(* `touched' is history: the rules edited since the draft was taken.       *)
Init ==
    /\ policy \in Policies /\ chosen = policy
    /\ pages = [t \in Tabs |-> [open |-> FALSE, cached |-> None, draft |-> None, touched |-> {},
                                answer |-> None, sent |-> None]]
    /\ saves = 0

Page(t, page) == pages' = [pages EXCEPT ![t] = page]

\* The form is mounted, with a draft of its own, as soon as there is an answer.
Open(t) ==
    LET p == pages[t]
    IN  /\ ~p.open
        /\ p.sent = None \/ Returns
        /\ Page(t, [p EXCEPT !.open = TRUE, !.draft = p.cached])
        /\ UNCHANGED <<policy, chosen, saves>>

Leave(t) ==
    LET p == pages[t]
    IN  /\ p.open
        /\ Page(t, [p EXCEPT !.open = FALSE, !.draft = None, !.touched = {},
                             !.sent = IF @ = None THEN None ELSE [@ EXCEPT !.here = FALSE]])
        /\ UNCHANGED <<policy, chosen, saves>>

\* An answer nobody shows is dropped in the end.
Evict(t) ==
    LET p == pages[t]
    IN  /\ ~p.open /\ p.cached # None /\ p.answer = None /\ p.sent = None
        /\ Page(t, [p EXCEPT !.cached = None])
        /\ UNCHANGED <<policy, chosen, saves>>

(* The server answers a request of the page: the first one, or one made on *)
(* coming back to it, or back to the network, with an answer that is stale.*)
Ask(t) ==
    LET p == pages[t]
    IN  /\ p.open /\ p.answer = None
        /\ p.cached = None \/ Refetches
        /\ Page(t, [p EXCEPT !.answer = policy])
        /\ UNCHANGED <<policy, chosen, saves>>

Arrive(t) ==
    LET p == pages[t]
    IN  /\ p.answer # None
        /\ Page(t, [p EXCEPT !.cached = p.answer, !.answer = None,
                             !.draft = IF p.open /\ @ = None THEN p.answer ELSE @])
        /\ UNCHANGED <<policy, chosen, saves>>

Edit(t) ==
    LET p == pages[t]
    IN  /\ p.draft # None
        /\ \E r \in Rules, v \in Values :
              Page(t, [p EXCEPT !.draft[r] = v, !.touched = @ \cup {r}])
        /\ UNCHANGED <<policy, chosen, saves>>

Discard(t) ==
    LET p == pages[t]
    IN  /\ p.draft # None /\ p.draft # p.cached
        /\ Page(t, [p EXCEPT !.draft = p.cached, !.touched = {}])
        /\ UNCHANGED <<policy, chosen, saves>>

\* Mutant: the whole draft is sent.
AllRules(t) == {r \in Rules : pages[t].draft # pages[t].cached}

Changed(t) == {r \in Rules : pages[t].draft[r] # pages[t].cached[r]}

Submit(t) ==
    LET p == pages[t]
    IN  /\ p.draft # None /\ p.sent = None /\ saves < MaxSaves
        /\ Changed(t) # {}
        /\ Page(t, [p EXCEPT !.sent = [patch |-> [r \in Changed(t) |-> p.draft[r]], meant |-> p.touched,
                                       reply |-> None, here |-> TRUE]])
        /\ saves' = saves + 1
        /\ UNCHANGED <<policy, chosen>>

\* PATCH /settings/attendance-policy: what the body names, over the rest.
Apply(t) ==
    LET p == pages[t]
        Over(rules, old) == [r \in Rules |-> IF r \in rules THEN p.sent.patch[r] ELSE old[r]]
    IN  /\ p.sent # None /\ p.sent.reply = None
        /\ policy' = Over(DOMAIN p.sent.patch, policy)
        /\ chosen' = Over(DOMAIN p.sent.patch \cap p.sent.meant, chosen)
        /\ Page(t, [p EXCEPT !.sent.reply = policy'])
        /\ UNCHANGED saves

\* onSuccess: the answer is cached and becomes the draft, whatever was edited meanwhile.
Saved(t) ==
    LET p == pages[t]
    IN  /\ p.sent # None /\ p.sent.reply # None
        /\ Page(t, [p EXCEPT !.cached = p.sent.reply, !.sent = None,
                             !.draft = IF p.sent.here THEN p.sent.reply ELSE @,
                             !.touched = IF p.sent.here THEN {} ELSE @])
        /\ UNCHANGED <<policy, chosen, saves>>

Next ==
    \E t \in Tabs :
        \/ Open(t) \/ Leave(t) \/ Evict(t) \/ Ask(t) \/ Arrive(t)
        \/ Edit(t) \/ Discard(t) \/ Submit(t) \/ Apply(t) \/ Saved(t)

Spec == Init /\ [][Next]_vars

(* Two people editing different rules do not undo each other: a rule has   *)
(* the last value somebody chose for it.                                   *)
NobodyUndone == policy = chosen
=============================================================================
