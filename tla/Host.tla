-------------------------------- MODULE Host --------------------------------
(***************************************************************************)
(* The LM Studio host, as the REST adapter uses it                         *)
(* (packages/lmstudio-adapter/src/rest): a set of loaded instances of the  *)
(* models of its catalog.  The host lists models in catalog order; loading *)
(* a model that is loaded already may serve the instance it has or spawn a *)
(* second one; unloading names one instance.                               *)
(***************************************************************************)
EXTENDS Naturals

CONSTANTS
  Models,   \* number of models in the catalog; a model is its position there
  Copies    \* bound on the instances of each model

Model == 1 .. Models

ASSUME CatalogAssumption == Models \in Nat /\ Copies \in [Model -> Nat \ {0}]

Instance == UNION {{<<m, k>> : k \in 1 .. Copies[m]} : m \in Model}

InstancesOf(m, loaded) == {i \in loaded : i[1] = m}

ListedBefore(i, j) == i[1] < j[1] \/ (i[1] = j[1] /\ i[2] < j[2])

(* models.find((model) => model.loaded), and its first instance *)
FirstLoaded(loaded) ==
  CHOOSE i \in loaded : \A j \in loaded \ {i} : ListedBefore(i, j)

(* The loaded sets a successful load of m may leave. *)
AfterLoad(m, loaded) ==
  {loaded \cup {<<m, k>>} : k \in
     {k \in 1 .. Copies[m] : /\ <<m, k>> \notin loaded
                          /\ \A j \in 1 .. k - 1 : <<m, j>> \in loaded}}
  \cup (IF InstancesOf(m, loaded) = {} THEN {} ELSE {loaded})
=============================================================================
