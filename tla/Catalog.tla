------------------------------- MODULE Catalog -------------------------------
(***************************************************************************)
(* The plugin catalog (src/internal/domain/plugin/service.go): a table of  *)
(* plugins that administrators register and update, and the read-through   *)
(* cache that answers GetBySlug.  A handler is a sequence of statements,   *)
(* and those of other handlers, in any instance, run between any two.      *)
(*                                                                         *)
(* A plugin's name, description, version and manifest are written and read *)
(* together, so an edition of it is all that is told apart.  Listing is a  *)
(* walk over the store (module Stores).                                    *)
(***************************************************************************)
EXTENDS Naturals

CONSTANTS
    Slugs,      \* slugs, lower case and trimmed
    Editions,   \* what an administrator may register or write
    Handlers,   \* goroutines serving requests
    PluginTTL,  \* lifetime of a cache entry, in ticks
    Nothing        \* nil

ASSUME CatalogAssumption ==
    /\ PluginTTL \in Nat \ {0}
    /\ Nothing \notin Slugs \cup Editions

VARIABLES
    plugins,  \* the plugins table: its rows for each slug
    entries,  \* the cache, under "plugin:<slug>"
    doing     \* what a handler holds between two statements

catalogVars == <<plugins, entries, doing>>

(***************************************************************************)
(* missed is history: an update of the row had overtaken the load that     *)
(* filled the entry, or the deletion of the entry failed.                  *)
(***************************************************************************)
Cache == [edition : Editions, left : 1..PluginTTL, missed : BOOLEAN]

Stages == {"idle", "insert", "load", "fill", "write", "drop"}
Doing == [stage : Stages, slug : Slugs \cup {Nothing}, edition : Editions \cup {Nothing}]
Resting == [stage |-> "idle", slug |-> Nothing, edition |-> Nothing]

CatalogTypeOK ==
    /\ plugins \in [Slugs -> Editions \cup {Nothing}]
    /\ entries \in [Slugs -> Cache \cup {Nothing}]
    /\ doing \in [Handlers -> Doing]

CatalogInit ==
    /\ plugins = [s \in Slugs |-> Nothing]
    /\ entries = [s \in Slugs |-> Nothing]
    /\ doing = [h \in Handlers |-> Resting]

In(h, stage) == doing[h].stage = stage

Begins(h, stage, s, e) ==
    /\ In(h, "idle")
    /\ doing' = [doing EXCEPT ![h] = [stage |-> stage, slug |-> s, edition |-> e]]

Moves(h, stage) == doing' = [doing EXCEPT ![h].stage = stage]
Rests(h) == doing' = [doing EXCEPT ![h] = Resting]

\* the manifest is valid and the slug, spelled as it will be stored, is free
Register(h, s, e) ==
    /\ plugins[s] = Nothing
    /\ Begins(h, "insert", s, e)
    /\ UNCHANGED <<plugins, entries>>

\* the column is unique: the later of two registrations fails; nothing was cached
\* under the slug, a miss is not
InsertPlugin(h) ==
    /\ In(h, "insert")
    /\ plugins' = IF plugins[doing[h].slug] = Nothing
                  THEN [plugins EXCEPT ![doing[h].slug] = doing[h].edition] ELSE plugins
    /\ Rests(h)
    /\ UNCHANGED entries

\* FindBySlug, and the changes to the row it found
UpdatePlugin(h, s, e) ==
    /\ plugins[s] # Nothing
    /\ Begins(h, "write", s, e)
    /\ UNCHANGED <<plugins, entries>>

\* mutant: the entry is left to its lifetime
WriteRowOnly(h) ==
    LET s == doing[h].slug IN
    /\ In(h, "write")
    /\ plugins' = [plugins EXCEPT ![s] = doing[h].edition]
    /\ Rests(h)
    /\ UNCHANGED entries

WriteRow(h) ==
    LET s == doing[h].slug IN
    /\ In(h, "write")
    /\ plugins' = [plugins EXCEPT ![s] = doing[h].edition]
    /\ Moves(h, "drop")
    /\ UNCHANGED entries

\* the error of the deletion is dropped
DropEntry(h) ==
    LET s == doing[h].slug IN
    /\ In(h, "drop")
    /\ \/ entries' = [entries EXCEPT ![s] = Nothing]
       \/ entries' = IF entries[s] = Nothing THEN entries
                     ELSE [entries EXCEPT ![s].missed = TRUE]
    /\ Rests(h)
    /\ UNCHANGED plugins

\* GetBySlug: a hit answers and changes nothing, a miss loads ...
GetBySlug(h, s) ==
    /\ entries[s] = Nothing
    /\ Begins(h, "load", s, Nothing)
    /\ UNCHANGED <<plugins, entries>>

LoadPlugin(h) ==
    LET s == doing[h].slug IN
    /\ In(h, "load")
    /\ IF plugins[s] = Nothing THEN Rests(h)
       ELSE doing' = [doing EXCEPT ![h].stage = "fill", ![h].edition = plugins[s]]
    /\ UNCHANGED <<plugins, entries>>

\* ... and fills
FillEntry(h) ==
    LET s == doing[h].slug IN
    /\ In(h, "fill")
    /\ entries' = [entries EXCEPT ![s] = [edition |-> doing[h].edition, left |-> PluginTTL,
                                         missed |-> doing[h].edition # plugins[s]]]
    /\ Rests(h)
    /\ UNCHANGED plugins

\* a statement failed, or the process stopped; a deletion that is never made
\* leaves the entry as one that failed does
Abandon(h) ==
    /\ ~In(h, "idle") /\ ~In(h, "drop")
    /\ Rests(h)
    /\ UNCHANGED <<plugins, entries>>

Expire ==
    /\ \E s \in Slugs : entries[s] # Nothing
    /\ entries' = [s \in Slugs |->
                     IF entries[s] = Nothing \/ entries[s].left = 1 THEN Nothing
                     ELSE [entries[s] EXCEPT !.left = @ - 1]]
    /\ UNCHANGED <<plugins, doing>>

CatalogNext ==
    \/ Expire
    \/ \E h \in Handlers :
         \/ \E s \in Slugs : GetBySlug(h, s)
                             \/ \E e \in Editions : Register(h, s, e) \/ UpdatePlugin(h, s, e)
         \/ InsertPlugin(h) \/ WriteRow(h) \/ DropEntry(h)
         \/ LoadPlugin(h) \/ FillEntry(h) \/ Abandon(h)

CatalogSpec == CatalogInit /\ [][CatalogNext]_catalogVars

-----------------------------------------------------------------------------
\* The catalog answers what the table holds, except while the deletion of the
\* entry is on its way, after it failed, or when an update overtook the load that
\* filled the entry; and a plugin that was never registered is never answered.
CatalogStaleIsExplained ==
    \A s \in Slugs :
       entries[s] # Nothing =>
          /\ plugins[s] # Nothing
          /\ \/ entries[s].edition = plugins[s]
             \/ entries[s].missed
             \/ \E h \in Handlers : In(h, "drop") /\ doing[h].slug = s

=============================================================================
