------------------------------ MODULE Warehouse ------------------------------
(***************************************************************************)
(* The containers of the topology tables (service_discovery/container) and *)
(* the matching of roles (service_discovery/role).                         *)
(*                                                                         *)
(* A role is a record with a type ("node", "writer", "reader", "server",   *)
(* "client") and the attributes the tables look at: proc (host name and    *)
(* process id together), node, name (the channel or service it is about,   *)
(* "" for a node) and id.  A target attribute set, with some fields set,   *)
(* is a record that has only those fields.                                 *)
(*                                                                         *)
(* A SingleValueWarehouse is a function from keys to a role or NoRole; a   *)
(* MultiValueWarehouse is a set of <<key, role>> pairs.  Every operation   *)
(* holds the container's AtomicRWLock from beginning to end, so each is    *)
(* one indivisible function of the contents.                               *)
(***************************************************************************)

NoRole == [type |-> "none"]

-----------------------------------------------------------------------------
(* Roles *)

(* Mutant: Match leaves the process out. *)
MatchedFields_NoProc(role) ==
  {"node"} \cup IF role.type \in {"writer", "reader"} THEN {"name", "id"} ELSE {"name"}

(* The fields that Match compares: RoleBase's, and those its subclasses    *)
(* add.  A server or client role is not told apart by its id.              *)
MatchedFields(role) ==
  {"proc", "node"} \cup CASE role.type \in {"writer", "reader"} -> {"name", "id"}
                          [] role.type \in {"server", "client"} -> {"name"}
                          [] OTHER -> {}

(* RoleX::Match: every field that is set in attr and that this kind of     *)
(* role looks at has the role's value.                                     *)
Match(role, attr) ==
  \A f \in MatchedFields(role) \cap DOMAIN attr : attr[f] = role[f]

-----------------------------------------------------------------------------
(* SingleValueWarehouse *)

SingleEmpty(keys) == [k \in keys |-> NoRole]

SingleHas(w, key) == w[key] # NoRole

(* Add with ignore_if_exist: whatever is there is replaced. *)
SingleAdd(w, key, role) == [w EXCEPT ![key] = role]

(* Remove(key): by key alone, whoever the stored role belongs to. *)
SingleRemove(w, key) == [w EXCEPT ![key] = NoRole]

(* Search(target_attr): the keys whose role matches. *)
SingleSearch(w, attr) ==
  {k \in DOMAIN w : SingleHas(w, k) /\ Match(w[k], attr)}

-----------------------------------------------------------------------------
(* MultiValueWarehouse *)

MultiAdd(w, key, role) == w \cup {<<key, role>>}

(* Remove(key, role): all the roles under the key that match. *)
MultiRemove(w, key, attr) ==
  {e \in w : ~(e[1] = key /\ Match(e[2], attr))}

(* Search(key): the roles under the key. *)
MultiUnder(w, key) == {e[2] : e \in {x \in w : x[1] = key}}

(* Search(target_attr): the roles that match. *)
MultiSearch(w, attr) == {e[2] : e \in {x \in w : Match(x[2], attr)}}
=============================================================================
