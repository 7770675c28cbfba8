------------------------------- MODULE Backend -------------------------------
(***************************************************************************)
(* One instance of the API below its handlers: the generic store, the      *)
(* gateway every request passes, and the plugin catalog behind its cache.  *)
(* The three share neither state nor a lock (the container hands each its  *)
(* own objects, src/internal/app/container.go), so that no step of one can *)
(* change what another does, and a behaviour follows one of them.          *)
(***************************************************************************)
EXTENDS Stores, Gateway, Catalog

VARIABLE part

Parts == {"stores", "gateway", "catalog"}

backendVars == <<part, storesVars, gatewayVars, catalogVars>>

\* The choices at the start are those of the part a behaviour follows.  The
\* limiter only withholds requests, so what can happen behind it is looked at
\* with RATE_LIMIT_ENABLED off, and the limiter with nobody registered.
Starts ==
    /\ part # "stores" => driver = "memory" /\ schema = "users"
    /\ limiter = "off" \/ \A u \in Users : account[u] = Absent
    /\ part # "gateway" => limiter = "off" /\ \A u \in Users : account[u] = Absent

BackendInit ==
    /\ part \in Parts
    /\ StoresInit /\ GatewayInit /\ CatalogInit
    /\ Starts

BackendNext ==
    /\ \/ part = "stores" /\ StoresNext /\ UNCHANGED <<gatewayVars, catalogVars>>
       \/ part = "gateway" /\ GatewayNext /\ UNCHANGED <<storesVars, catalogVars>>
       \/ part = "catalog" /\ CatalogNext /\ UNCHANGED <<storesVars, gatewayVars>>
    /\ UNCHANGED part

BackendSpec == BackendInit /\ [][BackendNext]_backendVars
=============================================================================
