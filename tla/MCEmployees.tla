----------------------------- MODULE MCEmployees -----------------------------
(***************************************************************************)
(* OctoState instantiated with BasicState and InsertEmployeesCommand      *)
(* (src/OctoCore/src/State_test.cpp).  m_employees maps object ids to     *)
(* Employee records; start_date is always 0 and left out, so the domain   *)
(* is a function from ids to names.                                       *)
(***************************************************************************)
EXTENDS OctoState, TLC

Names == {"alice", "bob", "cameron"}

EmptyMap == [x \in {} |-> ""]

\* InsertEmployeesCommand().addName(n1).addName(n2)...
InsertEmployees(names) == [cid |-> 1, args |-> [names |-> names]]

EmpCommands == {InsertEmployees(<<"alice", "bob">>),
                InsertEmployees(<<"cameron", "bob">>),
                InsertEmployees(<<"cameron">>)}

EmpCommandId(c) == c.cid

EmpAccepts(c) == TRUE

EmpDomains == UNION {[D -> Names] : D \in SUBSET (FirstId..IdLimit)}

\* IntList values of at most two ids (no enumerated batch is longer).
IdLists == UNION {[1..k -> FirstId..IdLimit] : k \in 0..2}

EmpResults == UNION {[F -> IdLists] : F \in SUBSET {"employee_ids"}}

HasName(d, name) == \E id \in DOMAIN d : d[id] = name

(* forward(): every name is validated first; then each name in turn gets  *)
(* getNextObjectId() and is inserted, and only at the end the ids are     *)
(* written to the result, which raises on a read-only result.             *)
EmpForward(c, d, r, m, n) ==
    LET names == c.args.names
        ins[i \in 0..Len(names)] ==
          IF i = 0 THEN [err |-> "none", emp |-> d, ids |-> <<>>, nid |-> n]
          ELSE LET p == ins[i - 1]
                   g == GetNextObjectId(p.nid)
               IN  CASE p.err # "none" -> p
                     [] ~g.ok -> [p EXCEPT !.err = "StateError", !.nid = g.nid]
                     [] OTHER -> [p EXCEPT !.emp = (g.id :> names[i]) @@ p.emp,
                                           !.ids = Append(p.ids, g.id),
                                           !.nid = g.nid]
        s == ins[Len(names)]
    IN  CASE \E i \in 1..Len(names) : HasName(d, names[i]) ->
               [err |-> "CommandWillNotApply", dom |-> d, res |-> r, nid |-> n]
          [] s.err # "none" -> [err |-> s.err, dom |-> s.emp, res |-> r, nid |-> s.nid]
          [] ~m -> [err |-> "CommandResultMisuse", dom |-> s.emp, res |-> r, nid |-> s.nid]
          [] OTHER -> [err |-> "none", dom |-> s.emp, nid |-> s.nid,
                       res |-> ("employee_ids" :> s.ids) @@ r]

\* backward(): throw Octo::StateException("Not implemented").
EmpBackward(c, d, r) == [err |-> "StateError", dom |-> d]
=============================================================================
