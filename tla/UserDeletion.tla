---------------------------- MODULE UserDeletion ----------------------------
(***************************************************************************)
(* UserDeletionService, on the stores that Ratings works on: seven steps,  *)
(* one after the other, each over the items it finds.  The error of an     *)
(* item or of a step is noted and the deletion goes on; at its end it      *)
(* reports success if none was noted.  A deletion that failed, or whose    *)
(* process died, may be called again.                                      *)
(***************************************************************************)
EXTENDS Ratings

CONSTANTS
  Leaver,      \* the user whose account is deleted
  UserOwned,   \* Memory_users_<leaver> and Memory_friends_<leaver>
  Documents,   \* the other documents kept of a user, by their path
  Paths,       \* the paths the service deletes: preferences, access-logs,
               \* trust-relationships, ghost_config, permissions; not ghost_escalation,
               \* templates, user_reports, confirmation requests, the mood
  Permissions, \* the last of them
  MaxCalls     \* bound on the requests and the calls of deleteUserData together

ASSUME DeletionAssumption ==
  /\ Leaver \in Users
  /\ UserOwned \subseteq Collections
  /\ Paths \subseteq Documents
  /\ Permissions \in Paths
  /\ MaxCalls \in Nat

VARIABLES
  registry,  \* the leaver's collections in the collection registry
  documents, \* the leaver's other documents
  deletion   \* the deletion: its step, what is left of it, and whether it noted an error

deletionVars == <<registry, documents, deletion>>
allVars == <<vars, deletionVars>>

Steps == {"none", "scan", "collections", "unregister", "documents", "query", "memory", "user",
          "centroid", "registry", "index", "permissions", "done",
          "died"}
Items == UserOwned \cup Documents \cup Memories

\* todo: what the step has left; at: the item it is at; alone: whether no request of the
\* leaver was running when it began.
DeletionTypeOK ==
  /\ TypeOK
  /\ registry \subseteq UserOwned
  /\ documents \subseteq Documents
  /\ deletion \in [step : Steps, todo : SUBSET Items, at : SUBSET Items, errors : BOOLEAN,
                   alone : BOOLEAN, calls : 0..MaxCalls]

DeletionInit ==
  /\ Init
  /\ registry = UserOwned
  /\ documents = Documents
  /\ deletion = [step |-> "none", todo |-> {}, at |-> {}, errors |-> FALSE, alone |-> TRUE,
                 calls |-> 0]

-----------------------------------------------------------------------------

On(step) == deletion.step = step
Go(step, todo) == deletion' = [deletion EXCEPT !.step = step, !.todo = todo]
GoAt(step, x) == deletion' = [deletion EXCEPT !.step = step, !.at = {x}, !.todo = @ \ {x}]

\* An error is noted, and the deletion goes on.
Note(step, todo) ==
  deletion' = [deletion EXCEPT !.step = step, !.todo = todo, !.errors = TRUE]

requestVars == <<requests, starts>>

\* The leaver sends no more requests; those at work go on.
Call ==
  /\ deletion.step \in {"none", "done", "died"}
  /\ starts + deletion.calls < MaxCalls
  /\ deletion' = [step |-> "scan", todo |-> {}, at |-> {}, errors |-> FALSE,
                  alone |-> \A r \in Running : requests[r].user # Leaver,
                  calls |-> deletion.calls + 1]
  /\ UNCHANGED <<vars, registry, documents>>

\* Slip: only the collections the registry knows.
ScanRegistryOnly ==
  /\ On("scan")
  /\ Go("collections", registry) \/ (Failing /\ Note("collections", {}))
  /\ UNCHANGED <<vars, registry, documents>>

\* Step 1.  The two collections of the user are known by name; the registry is asked for
\* others, and knows none.
ScanRegistry ==
  /\ On("scan")
  /\ \/ Go("collections", UserOwned \cup registry)
     \/ Failing /\ Note("collections", UserOwned)
  /\ UNCHANGED <<vars, registry, documents>>

\* A collection is deleted if it exists, with its memories, then unregistered.
DropCollection ==
  /\ On("collections")
  /\ \E c \in deletion.todo :
       \/ collections' = collections \ {c} /\ GoAt("unregister", c)
       \/ Failing /\ Note("collections", deletion.todo \ {c}) /\ UNCHANGED collections
  /\ UNCHANGED <<ratings, userRatings, aggregates, centroids, index, requestVars, torn, registry,
                 documents>>

Unregister ==
  /\ On("unregister")
  /\ \/ registry' = registry \ deletion.at /\ Go("collections", deletion.todo)
     \/ Failing /\ Note("collections", deletion.todo) /\ UNCHANGED registry
  /\ UNCHANGED <<vars, documents>>

EndCollections ==
  /\ On("collections")
  /\ deletion.todo = {}
  /\ Go("documents", Paths \ {Permissions})
  /\ UNCHANGED <<vars, registry, documents>>

\* Step 2: the documents of a path are deleted, or an error is noted.
DeleteDocuments ==
  /\ On("documents")
  /\ \E d \in deletion.todo :
       \/ documents' = documents \ {d} /\ Go("documents", deletion.todo \ {d})
       \/ Failing /\ Note("documents", deletion.todo \ {d}) /\ UNCHANGED documents
  /\ UNCHANGED <<vars, registry>>

EndDocuments ==
  /\ On("documents")
  /\ deletion.todo = {}
  /\ Go("query", {})
  /\ UNCHANGED <<vars, registry, documents>>

\* Step 3 goes through the ratings the leaver's own list has.
QueryRatings ==
  /\ On("query")
  /\ \/ Go("memory", {m \in Memories : userRatings[Leaver][m] # 0})
     \/ Failing /\ Note("centroid", {})
  /\ UNCHANGED <<vars, registry, documents>>

\* The document under the memory goes first; an error is swallowed.  The sums on the
\* memory stay, and the pair is parted.
DeleteMemoryRating ==
  /\ On("memory")
  /\ \E m \in deletion.todo :
       /\ ratings' = [ratings EXCEPT ![m][Leaver] = 0] \/ (Failing /\ UNCHANGED ratings)
       /\ Tear({m}, {}, {<<m, Leaver>>})
       /\ GoAt("user", m)
  /\ UNCHANGED <<userRatings, aggregates, centroids, collections, index, requestVars, registry,
                 documents>>

\* An error of the document under the user ends the step.  The pair is whole again when
\* both are gone.
DeleteUserRating ==
  /\ On("user")
  /\ \E m \in deletion.at :
       \/ /\ userRatings' = [userRatings EXCEPT ![Leaver][m] = 0]
          /\ torn' = IF ratings[m][Leaver] # 0 \/ BusyPair(m, Leaver) THEN torn
                     ELSE [torn EXCEPT !.pairs = @ \ {<<m, Leaver>>}]
          /\ Go("memory", deletion.todo)
       \/ Failing /\ Note("centroid", {}) /\ UNCHANGED <<userRatings, torn>>
  /\ UNCHANGED <<ratings, aggregates, centroids, collections, index, requestVars, registry,
                 documents>>

EndRatings ==
  /\ On("memory")
  /\ deletion.todo = {}
  /\ Go("centroid", {})
  /\ UNCHANGED <<vars, registry, documents>>

\* Step 4.
DeleteCentroid ==
  /\ On("centroid")
  /\ \/ centroids' = [centroids EXCEPT ![Leaver] = NoCentroid] /\ Go("registry", {})
     \/ Failing /\ Note("registry", {}) /\ UNCHANGED centroids
  /\ UNCHANGED <<ratings, userRatings, aggregates, collections, index, requestVars, torn,
                 registry, documents>>

\* Step 5: all entries of the leaver, whatever has become of their collections; an error
\* ends the step among them.
DeleteRegistryEntries ==
  /\ On("registry")
  /\ \/ registry' = {} /\ Go("index", {m \in index : CollectionOf[m] \in UserOwned})
     \/ /\ Failing
        /\ registry' \in SUBSET registry
        /\ Note("index", {m \in index : CollectionOf[m] \in UserOwned})
  /\ UNCHANGED <<vars, documents>>

\* Step 6: one entry after the other; an error ends the step.
DeleteIndexEntry ==
  /\ On("index")
  /\ \E m \in deletion.todo :
       \/ index' = index \ {m} /\ Go("index", deletion.todo \ {m})
       \/ Failing /\ Note("permissions", {}) /\ UNCHANGED index
  /\ UNCHANGED <<ratings, userRatings, aggregates, centroids, collections, requestVars, torn,
                 registry, documents>>

EndIndex ==
  /\ On("index")
  /\ deletion.todo = {}
  /\ Go("permissions", {})
  /\ UNCHANGED <<vars, registry, documents>>

\* Step 7, and the report.
DeletePermissions ==
  /\ On("permissions")
  /\ \/ documents' = documents \ {Permissions} /\ Go("done", {})
     \/ Failing /\ Note("done", {}) /\ UNCHANGED documents
  /\ UNCHANGED <<vars, registry>>

Die ==
  /\ Failing
  /\ deletion.step \notin {"none", "done", "died"}
  /\ Go("died", {})
  /\ UNCHANGED <<vars, registry, documents>>

DeletionStep ==
  \/ ScanRegistry \/ DropCollection \/ Unregister \/ EndCollections
  \/ DeleteDocuments \/ EndDocuments
  \/ QueryRatings \/ DeleteMemoryRating \/ DeleteUserRating \/ EndRatings
  \/ DeleteCentroid \/ DeleteRegistryEntries \/ DeleteIndexEntry
  \/ EndIndex \/ DeletePermissions

\* Everyone's requests, as long as the leaver's account is not being deleted.
Serve ==
  /\ \E r \in Requests :
       \/ /\ starts + deletion.calls < MaxCalls
          /\ \E u \in IF deletion.calls = 0 THEN Users ELSE Users \ {Leaver} :
               \/ Recommend(r, u)
               \/ \E m \in Memories :
                    (\E stars \in Stars : Rate(r, u, m, stars)) \/ Retract(r, u, m)
       \/ RatingStep(r)
  /\ UNCHANGED deletionVars

DeletionNext == Serve \/ Call \/ DeletionStep \/ Die

DeletionSpec == DeletionInit /\ [][DeletionNext]_allVars

-----------------------------------------------------------------------------
(* Properties.                                                             *)

\* A deletion that reports success has gone through all it has a path to, also when calls
\* before it failed or died in the middle, if no request of the user was at work: none of the
\* collections, registry and index entries, ratings, centroid and documents of those paths is
\* left.  Only a rating that its two documents told apart may still be under its memory.  The
\* documents of the user on other paths are all still there.
ReportsHonestly ==
  (On("done") /\ ~deletion.errors /\ deletion.alone) =>
    /\ collections \cap UserOwned = {} /\ registry = {} /\ documents = Documents \ Paths
    /\ \A m \in index : CollectionOf[m] \notin UserOwned
    /\ \A m \in Memories : userRatings[Leaver][m] = 0
    /\ \A m \in Memories : <<m, Leaver>> \in torn.pairs \/ ratings[m][Leaver] = 0
    /\ ~centroids[Leaver].cached

=============================================================================
