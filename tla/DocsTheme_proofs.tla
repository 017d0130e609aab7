--------------------------- MODULE DocsTheme_proofs ---------------------------
(***************************************************************************)
(* Proofs about the documentation theme's click dispatch, for any number  *)
(* of toggles and any scroll positions.                                    *)
(***************************************************************************)
EXTENDS DocsTheme, TLAPS

USE DocsThemeAssumption

(* A toggle carries exactly one of the two classes.                        *)
OneClass == {{"expand"}, {"collapse"}}

(* The inductive invariant.  Every toggle carries exactly one class, and   *)
(* while a click is being dispatched the handler queue holds the single    *)
(* handler matching the class the clicked toggle had, which no handler has *)
(* changed yet.  It is what makes ClickTogglesOnce hold: a click never     *)
(* queues both handlers, because no toggle ever carries both classes.      *)
DispatchInv ==
    /\ TypeOK
    /\ \A t \in Toggles : cls[t] \in OneClass
    /\ ~Idle => /\ target \in Toggles
                /\ from \in OneClass
                /\ cls[target] = from
                /\ queue = Matching(from)

(* The handlers a toggle with one class matches: just its own.            *)
LEMMA MatchingOne ==
    /\ Matching({"expand"}) = <<"expand">>
    /\ Matching({"collapse"}) = <<"collapse">>
    BY DEF Matching

(* The initial states satisfy the invariant.                              *)
LEMMA InitInv == Init => DispatchInv
    <1> SUFFICES ASSUME Init PROVE DispatchInv
        OBVIOUS
    <1>1. queue = <<>> /\ target = None /\ from = {}
        BY DEF Init
    <1>2. cls \in [Toggles -> OneClass]
        BY DEF Init, OneClass
    <1>3. cls \in [Toggles -> SUBSET Classes]
        BY <1>2 DEF OneClass, Classes
    <1>4. on \in [Toggles -> BOOLEAN] /\ top \in Tops
          /\ scrolled \in BOOLEAN /\ hidden \in BOOLEAN
        BY Zenon DEF Init
    <1>5. queue \in Seq(Classes) /\ target \in Toggles \cup {None}
          /\ from \in SUBSET Classes
        BY <1>1
    <1> QED
        BY <1>1, <1>2, <1>3, <1>4, <1>5 DEF DispatchInv, TypeOK, Idle

(* Every step preserves it.                                                 *)
LEMMA NextInv == DispatchInv /\ [Next]_vars => DispatchInv'
    <1> SUFFICES ASSUME DispatchInv, [Next]_vars PROVE DispatchInv'
        OBVIOUS
    <1>1. ASSUME NEW t \in Toggles, Click(t) PROVE DispatchInv'
        <2>1. cls[t] \in OneClass
            BY DEF DispatchInv
        <2>2. queue' = Matching(cls[t])
            BY <1>1 DEF Click
        <2>3. queue' \in Seq(Classes) /\ queue' # <<>>
            <3>1. CASE cls[t] = {"expand"}
                <4>1. queue' = <<"expand">>
                    BY <2>2, <3>1, MatchingOne
                <4>2. <<"expand">> \in Seq(Classes)
                    BY DEF Classes
                <4> QED
                    BY <4>1, <4>2
            <3>2. CASE cls[t] = {"collapse"}
                <4>1. queue' = <<"collapse">>
                    BY <2>2, <3>2, MatchingOne
                <4>2. <<"collapse">> \in Seq(Classes)
                    BY DEF Classes
                <4> QED
                    BY <4>1, <4>2
            <3> QED
                BY <2>1, <3>1, <3>2 DEF OneClass
        <2> QED
            BY <1>1, <2>1, <2>2, <2>3 DEF Click, DispatchInv, TypeOK, Idle,
                                          OneClass, Classes
    <1>2. ASSUME RunHandler PROVE DispatchInv'
        <2>1. target \in Toggles /\ from \in OneClass /\ cls[target] = from
              /\ queue = Matching(from)
            BY <1>2 DEF RunHandler, DispatchInv
        <2>2. CASE from = {"expand"}
            <3>1. queue = <<"expand">>
                BY <2>1, <2>2, MatchingOne
            <3>2. Expand(target) /\ queue' = <<>>
                BY <1>2, <3>1 DEF RunHandler
            <3>3. cls' = [cls EXCEPT ![target] = {"collapse"}]
                BY <2>1, <2>2, <3>2 DEF Expand
            <3> QED
                BY <1>2, <2>1, <3>2, <3>3 DEF DispatchInv, TypeOK, Idle,
                                              OneClass, Classes, RunHandler,
                                              Expand
        <2>3. CASE from = {"collapse"}
            <3>1. queue = <<"collapse">>
                BY <2>1, <2>3, MatchingOne
            <3>2. Collapse(target) /\ queue' = <<>>
                BY <1>2, <3>1 DEF RunHandler
            <3>3. cls' = [cls EXCEPT ![target] = {"expand"}]
                BY <2>1, <2>3, <3>2 DEF Collapse
            <3> QED
                BY <1>2, <2>1, <3>2, <3>3 DEF DispatchInv, TypeOK, Idle,
                                              OneClass, Classes, RunHandler,
                                              Collapse
        <2> QED
            BY <2>1, <2>2, <2>3 DEF OneClass
    <1>3. ASSUME NEW p \in Tops, Scroll(p) PROVE DispatchInv'
        BY <1>3 DEF Scroll, DispatchInv, TypeOK, Idle
    <1>4. ASSUME ScrollHandler PROVE DispatchInv'
        <2>1. hidden' \in BOOLEAN /\ scrolled' \in BOOLEAN
            <3>1. hidden' = (top <= 60) /\ scrolled' = FALSE
                BY <1>4 DEF ScrollHandler
            <3>2. top \in Nat
                BY DEF DispatchInv, TypeOK
            <3>3. (top <= 60) \in BOOLEAN
                BY <3>2
            <3> QED
                BY <3>1, <3>3, Zenon
        <2>2. UNCHANGED <<cls, on, queue, target, from, top>>
            BY <1>4 DEF ScrollHandler
        <2>3. TypeOK'
            BY <2>1, <2>2 DEF DispatchInv, TypeOK
        <2> QED
            BY <2>2, <2>3 DEF DispatchInv, Idle
    <1>5. CASE UNCHANGED vars
        BY <1>5 DEF vars, DispatchInv, TypeOK, Idle
    <1> QED
        BY <1>1, <1>2, <1>3, <1>4, <1>5 DEF Next

(* DispatchInv holds in every reachable state.                              *)
THEOREM Invariant == Spec => []DispatchInv
    BY InitInv, NextInv, PTL DEF Spec

(* Type correctness of the theme script's state.                            *)
THEOREM TypeCorrect == Spec => []TypeOK
    BY Invariant, PTL DEF DispatchInv

(* The step that ends a click's dispatch.                                  *)
ClickEnds ==
    ~Idle /\ Idle' =>
        /\ cls'[target] \in {{"expand"}, {"collapse"}}
        /\ cls'[target] # from
        /\ on'[target] = ("collapse" \in cls'[target])

(* Only a handler ends a dispatch, and the one it runs flips the class     *)
(* and sets the dts to match.                                               *)
LEMMA StepEndsClick == DispatchInv /\ [Next]_vars => [ClickEnds]_vars
    <1> SUFFICES ASSUME DispatchInv, [Next]_vars PROVE ClickEnds
        BY DEF ClickEnds
    <1>1. CASE \E t \in Toggles : Click(t)
        BY <1>1 DEF Click, ClickEnds
    <1>2. CASE RunHandler
        <2>1. target \in Toggles /\ from \in OneClass /\ cls[target] = from
              /\ queue = Matching(from)
            BY <1>2 DEF RunHandler, DispatchInv
        <2>2. CASE from = {"expand"}
            <3>1. Expand(target)
                BY <1>2, <2>1, <2>2, MatchingOne DEF RunHandler
            <3>2. cls'[target] = {"collapse"} /\ on'[target] = TRUE
                BY <2>1, <2>2, <3>1 DEF Expand, DispatchInv, TypeOK
            <3> QED
                BY <1>2, <2>2, <3>2 DEF ClickEnds, RunHandler
        <2>3. CASE from = {"collapse"}
            <3>1. Collapse(target)
                BY <1>2, <2>1, <2>3, MatchingOne DEF RunHandler
            <3>2. cls'[target] = {"expand"} /\ on'[target] = FALSE
                BY <2>1, <2>3, <3>1 DEF Collapse, DispatchInv, TypeOK
            <3>3. target' = target /\ from' = from
                BY <1>2 DEF RunHandler
            <3>4. ("collapse" \in {"expand"}) = FALSE
                OBVIOUS
            <3> QED
                BY <2>3, <3>2, <3>3, <3>4, Zenon DEF ClickEnds
        <2> QED
            BY <2>1, <2>2, <2>3 DEF OneClass
    <1>3. CASE \E p \in Tops : Scroll(p)
        BY <1>3 DEF Scroll, ClickEnds
    <1>4. CASE ScrollHandler
        BY <1>4 DEF ScrollHandler, ClickEnds
    <1>5. CASE UNCHANGED vars
        BY <1>5 DEF vars, ClickEnds, Idle
    <1> QED
        BY <1>1, <1>2, <1>3, <1>4, <1>5 DEF Next

(* ClickTogglesOnce for any number of toggles: the delegated handlers,     *)
(* dispatched as jQuery does, flip a toggle exactly once per click.        *)
THEOREM TogglesOnce == Spec => ClickTogglesOnce
    <1>1. []DispatchInv /\ [][Next]_vars => [][ClickEnds]_vars
        BY StepEndsClick, PTL
    <1> QED
        BY <1>1, Invariant, PTL DEF Spec, ClickTogglesOnce, ClickEnds

=============================================================================
