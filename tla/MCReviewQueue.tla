---------------------------- MODULE MCReviewQueue ----------------------------
(* ReviewQueue for TLC: a reach with one text field and its classes.  A run  *)
(* looks at one request that everyone acts on, or at the submissions of an   *)
(* editor whose requests are rejected.                                      *)
EXTENDS ReviewQueue, TLC

CONSTANTS e1, p1, p2, m1, m2, m3, desc, cls, old, new
MCInitialValue == [f \in Field |-> old]

VARIABLE focus
mcvars == <<vars, focus>>

\* One request and one POST of propose.php at a time.
Decision ==
    /\ Next
    /\ Len(requests') <= 1
    /\ Cardinality({p \in Post : post'[p].pc # "idle"}) <= 1

\* Proposals of one and the same value, overlapping; nobody approves.
Submission ==
    \/ \E p \in Post, e \in Editor, x \in 0..Len(requests) :
         ProposeLoad(p, e, x, [f \in {desc} |-> new])
    \/ \E p \in Post : ProposeSave(p)
    \/ \E r \in Request : DayPasses(r)
    \/ \E m \in Tab, r \in Request : Render(m, r)
    \/ \E m \in Tab : PostReview(m, "reject", tab[m].form, TRUE) \/ Reject(m)

MCInit == Init /\ focus \in {"decisions", "submissions"}
MCNext ==
    /\ UNCHANGED focus
    /\ \/ focus = "decisions" /\ Decision
       \/ focus = "submissions" /\ Submission
MCSpec == MCInit /\ [][MCNext]_mcvars

Symmetry == Permutations(Tab) \cup Permutations(Post)
=============================================================================
