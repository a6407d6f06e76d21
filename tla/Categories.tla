----------------------------- MODULE Categories -----------------------------
(***************************************************************************)
(* The tree of categories: src/src/modules/categories/service.ts.           *)
(*                                                                         *)
(* A move asks the database for the children of one category after another  *)
(* (checkIsDescendant) and writes the new parent when it has found nothing; *)
(* nothing holds the tree still meanwhile.  reorderCategories writes only   *)
(* sortOrder, which is left out.                                            *)
(***************************************************************************)
EXTENDS Integers

CONSTANTS
  Nodes,     \* categories there may be, of one tenant
  Root,      \* not a category: parentId is null
  Editors,   \* mutations under way, each made once
  Plans,     \* what the calls may ask for, taken together
  Trees      \* parents of the categories when the behaviour starts, one tree or another

Edits == [op : {"create", "move", "delete"}, node : Nodes, under : Nodes \cup {Root}]

ASSUME CategoryConstants ==
  /\ Root \notin Nodes
  /\ Plans \subseteq [Editors -> Edits]
  /\ Trees \subseteq UNION {[S -> S \cup {Root}] : S \in SUBSET Nodes}

VARIABLES
  plan,      \* plan[e]: the request of call e
  parent,    \* parent[n]: parentId of each category there is
  at,        \* at[e]: progress of call e
  todo,      \* todo[e]: categories whose children its walk has still to ask for
  stirred    \* history: calls during whose walk the tree changed

treeVars == <<plan, parent, at, todo, stirred>>

There == DOMAIN parent
Children(n) == {k \in There : parent[k] = n}

(* n and all that is above it: the least set of its kind. *)
Closed(S) == \A k \in S \cap There : parent[k] \in S
Upwards(n) ==
  LET closed == {S \in SUBSET (Nodes \cup {Root}) : n \in S /\ Closed(S)}
  IN  {m \in Nodes \cup {Root} : \A S \in closed : m \in S}
Cyclic == \E n \in There : n \in Upwards(parent[n])

-----------------------------------------------------------------------------
TreeInit ==
  /\ plan \in Plans
  /\ parent \in Trees
  /\ at = [e \in Editors |-> "idle"]
  /\ todo = [e \in Editors |-> {}]
  /\ stirred = {}

Turn(e, s) == at' = [at EXCEPT ![e] = s]
Walking == {e \in Editors : at[e] = "walking"}
Replant(new) == parent' = new /\ stirred' = stirred \cup Walking

(* createCategory, updateCategory: parentId is null, or there.  deleteCategory does *)
(* not have one.                                                                    *)
ParentFound(e) == plan[e].op = "delete" \/ plan[e].under \in There \cup {Root}

(* The lookups.  A move to the top or to the category itself skips the walk. *)
Look(e) ==
  LET r == plan[e]
  IN  /\ at[e] = "idle"
      /\ IF r.op # "create" /\ r.node \notin There THEN Turn(e, "ended") /\ todo' = todo
         ELSE IF r.op # "move" \/ r.under \in {Root, r.node}
         THEN /\ Turn(e, IF ~ParentFound(e) THEN "ended"
                         ELSE IF r.op = "delete" THEN "orphaning" ELSE "writing")
              /\ todo' = todo
         ELSE IF ParentFound(e)
         THEN Turn(e, "walking") /\ todo' = [todo EXCEPT ![e] = {r.under}]
         ELSE Turn(e, "ended") /\ todo' = todo
      /\ UNCHANGED <<plan, parent, stirred>>

(* mutant: children are looked at, and theirs are not *)
VisitOnce(e) ==
  /\ at[e] = "walking"
  /\ Turn(e, IF plan[e].node \in Children(plan[e].under) THEN "refused" ELSE "writing")
  /\ UNCHANGED <<plan, parent, todo, stirred>>

(* checkIsDescendant of one category; siblings come in any order. *)
Visit(e) ==
  /\ at[e] = "walking"
  /\ \E n \in todo[e] :
       LET left == (todo[e] \ {n}) \cup Children(n)
       IN  IF plan[e].node \in Children(n) THEN Turn(e, "refused") /\ todo' = todo
           ELSE Turn(e, IF left = {} THEN "writing" ELSE "walking")
                /\ todo' = [todo EXCEPT ![e] = left]
  /\ UNCHANGED <<plan, parent, stirred>>

(* The INSERT or UPDATE; the foreign key wants the parent to be there still. *)
WriteParent(e) ==
  LET r == plan[e]
      new == [n \in There \cup {r.node} |-> IF n = r.node THEN r.under ELSE parent[n]]
  IN  /\ at[e] = "writing"
      /\ Turn(e, "ended")
      /\ IF /\ r.op = "create" <=> r.node \notin There
            /\ r.under \in DOMAIN new \cup {Root}
         THEN Replant(new) ELSE UNCHANGED <<parent, stirred>>
      /\ UNCHANGED <<plan, todo>>

(* deleteCategory: updateMany of the children, without a transaction *)
Orphan(e) ==
  /\ at[e] = "orphaning"
  /\ Replant([n \in There |-> IF parent[n] = plan[e].node THEN Root ELSE parent[n]])
  /\ Turn(e, "deleting")
  /\ UNCHANGED <<plan, todo>>

(* mutant: children that came after updateMany keep the parent that is gone *)
RemoveOnly(e) ==
  /\ at[e] = "deleting"
  /\ Replant([n \in There \ {plan[e].node} |-> parent[n]])
  /\ Turn(e, "ended")
  /\ UNCHANGED <<plan, todo>>

(* The DELETE; children that came meanwhile are set to null by the foreign key. *)
Remove(e) ==
  /\ at[e] = "deleting"
  /\ Replant([n \in There \ {plan[e].node} |->
                IF parent[n] = plan[e].node THEN Root ELSE parent[n]])
  /\ Turn(e, "ended")
  /\ UNCHANGED <<plan, todo>>

(* A statement fails or the process stops. *)
Abandon(e) ==
  /\ at[e] \notin {"idle", "refused", "ended"}
  /\ Turn(e, "ended")
  /\ UNCHANGED <<plan, parent, todo, stirred>>

Proceed(e) == Visit(e) \/ WriteParent(e) \/ Orphan(e) \/ Remove(e) \/ Abandon(e)

TreeNext == \E e \in Editors : Look(e) \/ Proceed(e)

(* Every statement of a call that has begun ends, well or badly. *)
TreeFairness == \A e \in Editors : WF_treeVars(Proceed(e))
TreeSpec == TreeInit /\ [][TreeNext]_treeVars /\ TreeFairness

-----------------------------------------------------------------------------
(* Every variable keeps its type, and the parent of a category is there. *)
TreeTypes ==
  /\ plan \in Plans
  /\ There \subseteq Nodes
  /\ parent \in [There -> There \cup {Root}]
  /\ at \in [Editors -> {"idle", "walking", "writing", "orphaning", "deleting", "refused",
                         "ended"}]
  /\ todo \in [Editors -> SUBSET Nodes]
  /\ stirred \subseteq Editors

(* The walk of a move ends, unless the tree has a cycle, and if nothing changed the   *)
(* tree meanwhile it refuses exactly the moves of a category to one that is above it: *)
(* these could not close a cycle, and the moves that do, to one below, are written.   *)
WalksEnd == \A e \in Editors : (at[e] = "walking") ~> (at[e] # "walking" \/ Cyclic)
MovesJudged ==
  [][\A e \in Walking \ stirred :
       LET above == plan[e].under \in Upwards(plan[e].node)
       IN  /\ at'[e] = "refused" => above
           /\ at'[e] = "writing" => ~above]_treeVars
MovesDecided == WalksEnd /\ MovesJudged

=============================================================================
