------------------------------ MODULE DocsTheme ------------------------------
(***************************************************************************)
(* The documentation theme script (src/docs/theme/.../main.js).  Two      *)
(* delegated click handlers on the document turn a ".expand" toggle into   *)
(* ".collapse" and mark the dt elements of the dl after it "on", and back; *)
(* a scroll handler hides #key while the page is within 60 px of its top. *)
(*                                                                         *)
(* jQuery dispatches a delegated click by first matching every registered *)
(* selector against the target and queueing the handlers that match, in   *)
(* registration order, then running the queue; no other event runs in     *)
(* between.  A handler's class change therefore cannot make the other      *)
(* handler run for the same click, but a toggle carrying both classes runs *)
(* both.  The markup is not in the repository: every toggle starts with    *)
(* one of the two classes, its dts on or off, at any scroll position.      *)
(***************************************************************************)
EXTENDS Naturals, Sequences

CONSTANTS
    Toggles,    \* elements of class expand or collapse, each before a dl
    Tops,       \* scrollTop values of .off-canvas-wrap
    None        \* no click being dispatched

ASSUME DocsThemeAssumption ==
    /\ Tops \subseteq Nat
    /\ None \notin Toggles

VARIABLES
    cls,        \* cls[t]: which of "expand", "collapse" t's class list holds
    on,         \* on[t]: the dts of t's next dl have class "on"
    queue,      \* handlers still to run for the click being dispatched
    target,     \* the toggle clicked, or None
    from,       \* cls[target] when the click was dispatched
    top,        \* scrollTop
    scrolled,   \* a scroll event is waiting to be dispatched
    hidden      \* #key has class "hidden"

vars == <<cls, on, queue, target, from, top, scrolled, hidden>>

Classes == {"expand", "collapse"}

Idle == queue = <<>>

Init ==
    /\ cls \in [Toggles -> {{"expand"}, {"collapse"}}]
    /\ on \in [Toggles -> BOOLEAN]
    /\ queue = <<>>
    /\ target = None
    /\ from = {}
    /\ top \in Tops
    /\ scrolled = FALSE
    /\ hidden \in BOOLEAN

-----------------------------------------------------------------------------
(* The handlers whose selector matches an element with classes c, in the  *)
(* order they were registered: ".expand" first, then ".collapse".          *)
Matching(c) ==
    (IF "expand" \in c THEN <<"expand">> ELSE <<>>)
        \o (IF "collapse" \in c THEN <<"collapse">> ELSE <<>>)

(* A click on toggle t: jQuery matches every delegated selector against it *)
(* and queues the handlers that match before running any of them.          *)
Click(t) ==
    /\ Idle
    /\ queue' = Matching(cls[t])
    /\ target' = t
    /\ from' = cls[t]
    /\ UNCHANGED <<cls, on, top, scrolled, hidden>>

(* Mutant: the ".expand" handler adds "collapse" but forgets to remove     *)
(* "expand".                                                                *)
ExpandKeepsClass(t) ==
    /\ on' = [on EXCEPT ![t] = TRUE]
    /\ cls' = [cls EXCEPT ![t] = @ \cup {"collapse"}]

(* The ".expand" handler: dts on, class expand -> collapse.               *)
Expand(t) ==
    /\ on' = [on EXCEPT ![t] = TRUE]
    /\ cls' = [cls EXCEPT ![t] = (@ \ {"expand"}) \cup {"collapse"}]

(* Mutant: the ".collapse" handler adds a misspelt class name.             *)
CollapseMisspelt(t) ==
    /\ on' = [on EXCEPT ![t] = FALSE]
    /\ cls' = [cls EXCEPT ![t] = (@ \ {"collapse"}) \cup {"expanded"}]

(* The ".collapse" handler: dts off, class collapse -> expand.            *)
Collapse(t) ==
    /\ on' = [on EXCEPT ![t] = FALSE]
    /\ cls' = [cls EXCEPT ![t] = (@ \ {"collapse"}) \cup {"expand"}]

(* The next queued handler runs on the clicked toggle.                     *)
RunHandler ==
    /\ ~Idle
    /\ IF Head(queue) = "expand" THEN Expand(target) ELSE Collapse(target)
    /\ queue' = Tail(queue)
    /\ UNCHANGED <<target, from, top, scrolled, hidden>>

(* The user scrolls the content to p; the browser queues a scroll event.   *)
Scroll(p) ==
    /\ Idle
    /\ top' = p
    /\ scrolled' = TRUE
    /\ UNCHANGED <<cls, on, queue, target, from, hidden>>

(* The scroll handler reads scrollTop when it runs.                        *)
ScrollHandler ==
    /\ Idle
    /\ scrolled
    /\ hidden' = (top <= 60)
    /\ scrolled' = FALSE
    /\ UNCHANGED <<cls, on, queue, target, from, top>>

Next ==
    \/ \E t \in Toggles : Click(t)
    \/ RunHandler
    \/ \E p \in Tops : Scroll(p)
    \/ ScrollHandler

Spec == Init /\ [][Next]_vars

-----------------------------------------------------------------------------
(* Type correctness.                                                        *)
TypeOK ==
    /\ cls \in [Toggles -> SUBSET Classes]
    /\ on \in [Toggles -> BOOLEAN]
    /\ queue \in Seq(Classes)
    /\ target \in Toggles \cup {None}
    /\ from \in SUBSET Classes
    /\ top \in Tops
    /\ scrolled \in BOOLEAN
    /\ hidden \in BOOLEAN

(* A click toggles exactly once: when its last handler has run, the toggle *)
(* carries exactly one of the two classes, the other one than before the   *)
(* click, and its dts are on exactly when it now offers "collapse", whatever *)
(* state the markup started in and however many clicks came before.       *)
ClickTogglesOnce ==
    [][~Idle /\ Idle' =>
         /\ cls'[target] \in {{"expand"}, {"collapse"}}
         /\ cls'[target] # from
         /\ on'[target] = ("collapse" \in cls'[target])]_vars
=============================================================================
