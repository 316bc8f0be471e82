----------------------------- MODULE Selectors -----------------------------
(***************************************************************************)
(* Which listeners apply to a pod (handler.go, ResourceSelector.match to   *)
(* Handlers.getHandlersFor).                                               *)
(*                                                                         *)
(* A pod is a record with a namespace, a name and labels, a function of    *)
(* the label keys it has.  A selector has a namespace and a name, both     *)
(* possibly empty, labels, and the requirements of its query.              *)
(***************************************************************************)
EXTENDS Sequences

\* One requirement of a label query, as k8s.io/apimachinery evaluates it.
\* = and == are "in", != is "notin"; the numeric gt and lt are left out.
Satisfies(labels, r) ==
    LET present == r.key \in DOMAIN labels
    IN  \/ r.op = "in" /\ present /\ labels[r.key] \in r.values
        \/ r.op = "notin" /\ (present => labels[r.key] \notin r.values)
        \/ r.op = "exists" /\ present
        \/ r.op = "!exists" /\ ~present

\* The labels and the query of a selector are added up.
SelectorMatch(s, p) ==
    /\ s.namespace \in {"", p.namespace}
    /\ s.name \in {"", p.name}
    /\ \A k \in DOMAIN s.labels : k \in DOMAIN p.labels /\ p.labels[k] = s.labels[k]
    /\ \A r \in s.query : Satisfies(p.labels, r)

\* One selector is enough; a listener without selectors listens to all pods.
Match(l, p) == l.selectors = {} \/ \E s \in l.selectors : SelectorMatch(s, p)

\* Mutated form: one listener that matches brings all of them.
HandlersForAny(listeners, p) ==
    IF \E i \in DOMAIN listeners : Match(listeners[i], p) THEN DOMAIN listeners ELSE {}

\* The positions of the listeners that match, in the order of the configuration.
HandlersFor(listeners, p) == {i \in DOMAIN listeners : Match(listeners[i], p)}
=============================================================================
