--------------------------- MODULE EventTypeDrawer ---------------------------
(***************************************************************************)
(* The event types of one host (event-types.service.ts), the list of the   *)
(* dashboard (event-type-list.tsx) and the drawer that edits one of them   *)
(* beside it (event-type-drawer.tsx), while others book and another tab    *)
(* archives.                                                               *)
(*                                                                         *)
(* Of an event type's fields only the slug is kept, as one of its own or   *)
(* the suffixed one of a deleted event type; of the form, also whose data  *)
(* it shows.  The answer to a GET is read when it arrives: an older one    *)
(* differs only as one that another tab made old.                          *)
(***************************************************************************)
EXTENDS Naturals, FiniteSets

CONSTANTS
  TypeIds,       \* the ids of the event types, those not yet created included
  NewType,       \* the drawer creates
  NoType,
  Loads,         \* bound: how many GETs of an event type are on their way
  MaxElsewhere,  \* bound: how many changes are made elsewhere
  MaxRequests    \* bound: how many requests of the page are on their way

ASSUME TypeIdsAssumption == NewType \notin TypeIds /\ NoType \notin TypeIds /\ NewType # NoType
ASSUME DrawerBoundsAssumption == MaxElsewhere \in Nat /\ MaxRequests \in Nat

VARIABLES
  types,         \* the table of event types
  bookedTypes,   \* those a booking refers to
  deletedTypes,  \* those the host deleted and did not unarchive
  items,         \* the cards of the list
  listing,       \* a GET of the list is on its way
  drawer,        \* the drawer and its form
  loads,         \* the GETs of an event type that are on their way
  saving,        \* the POST or PATCH of handleSave that is on its way
  deleting,      \* the modal of the event type to delete, and its DELETE
  elsewhere,     \* how many changes were made elsewhere
  hasty,         \* the host did not wait for an answer, or saved after a failed GET
  mixed,         \* a PATCH wrote the data of one event type into another
  revived        \* those a PATCH wrote to that had begun before their deletion

typeVars == <<types, bookedTypes, deletedTypes, items, listing, drawer, loads, saving,
              deleting, elsewhere, hasty, mixed, revived>>

Targets == TypeIds \cup {NewType}
Slug == {"own", "suffixed"}
EventType == [state : {"absent", "active", "archived"}, slug : Slug]

\* target NoType: closed.  "of" is whose data the form shows, NoType: it is blank.
Drawer == [target : Targets \cup {NoType}, of : Targets \cup {NoType}, slug : Slug,
           isLoading : BOOLEAN, error : {"none", "load", "save"}]

\* alien: the form holds another one's data though the host did wait.
Saving == [state : {"none", "sent", "checked", "stored", "failed"}, target : Targets,
           alien : BOOLEAN, slug : Slug]

Deleting == [state : {"closed", "open", "sent", "booked", "unbooked", "done", "failed"},
             id : TypeIds \cup {NoType}, opened : BOOLEAN]

Absent == [state |-> "absent", slug |-> "own"]
Closed == [state |-> "closed", id |-> NoType, opened |-> FALSE]
NotSaving == [state |-> "none", target |-> NewType, alien |-> FALSE, slug |-> "own"]

Exists(id) == types[id].state # "absent"
Active == {id \in TypeIds : types[id].state = "active"}

TypesInit ==
  /\ types = [id \in TypeIds |-> Absent]
  /\ bookedTypes = {} /\ deletedTypes = {}
  /\ items = {} /\ listing = TRUE
  /\ drawer = [target |-> NoType, of |-> NoType, slug |-> "own", isLoading |-> FALSE,
               error |-> "none"]
  /\ loads = [l \in Loads |-> NoType]
  /\ saving = NotSaving /\ deleting = Closed
  /\ elsewhere = 0 /\ hasty = FALSE /\ mixed = FALSE /\ revived = {}

server == <<types, bookedTypes, deletedTypes, elsewhere, revived>>
Outstanding == {l \in Loads : loads[l] # NoType}
Requests ==
  Cardinality(Outstanding) + (IF saving.state = "none" THEN 0 ELSE 1)
    + (IF deleting.state \in {"closed", "open"} THEN 0 ELSE 1)
MayRequest == Requests < MaxRequests

Answered == Outstanding = {} /\ saving.state = "none"

-----------------------------------------------------------------------------
(* The list *)

\* loadData: the cards are hidden until it answers.
ListAnswered ==
  /\ listing
  /\ listing' = FALSE
  /\ items' \in {Active, items}
  /\ UNCHANGED <<server, drawer, loads, saving, deleting, hasty, mixed>>

\* The modal covers the page: the host can do nothing beside it.
Uncovered == deleting.state = "closed"

-----------------------------------------------------------------------------
(* The drawer *)

\* The effect on isOpen and eventTypeId, for a new event type.
FormReset == [target |-> NewType, of |-> NewType, slug |-> "own", isLoading |-> FALSE,
              error |-> "none"]

\* Mutant of FormLoading: the effect depends on isOpen alone.
LoadedOnce(id) ==
  IF drawer.target = NoType THEN [drawer EXCEPT !.target = id, !.isLoading = TRUE, !.error = "none"]
                            ELSE [drawer EXCEPT !.target = id]

\* The same effect, for one that exists: its data is asked for, the form stays.
FormLoading(id) == [drawer EXCEPT !.target = id, !.isLoading = TRUE, !.error = "none"]

OpenCreateDrawer ==
  /\ Uncovered
  /\ drawer.target # NewType
  /\ drawer' = FormReset
  /\ hasty' = ~Answered
  /\ UNCHANGED <<server, items, listing, loads, saving, deleting, mixed>>

OpenEditDrawer(id) ==
  /\ Uncovered /\ ~listing
  /\ id \in items /\ drawer.target # id /\ MayRequest
  /\ drawer' = FormLoading(id)
  /\ IF drawer'.isLoading THEN \E l \in Loads \ Outstanding : loads' = [loads EXCEPT ![l] = id]
                          ELSE UNCHANGED loads
  /\ hasty' = ~Answered
  /\ UNCHANGED <<server, items, listing, saving, deleting, mixed>>

\* What the form holds stays; an error or a spinner is of no use any more.
Shut == [drawer EXCEPT !.target = NoType, !.isLoading = FALSE, !.error = "none"]

CloseDrawer ==
  /\ Uncovered
  /\ drawer.target # NoType
  /\ drawer' = Shut /\ hasty' = FALSE
  /\ UNCHANGED <<server, items, listing, loads, saving, deleting, mixed>>

Failed(error) == IF drawer.target = NoType THEN drawer ELSE [drawer EXCEPT !.error = error]

\* The answer to a GET, whatever the drawer shows by now.
EventTypeLoaded(l) ==
  /\ loads[l] # NoType
  /\ loads' = [loads EXCEPT ![l] = NoType]
  /\ \/ /\ Exists(loads[l])
        /\ drawer' = [drawer EXCEPT !.of = loads[l], !.slug = types[loads[l]].slug,
                                    !.isLoading = FALSE]
     \/ drawer' = [Failed("load") EXCEPT !.isLoading = FALSE]
  /\ UNCHANGED <<server, items, listing, saving, deleting, hasty, mixed>>

\* The button waits for a save and for a title, not for the form to be loaded.
HandleSave ==
  /\ Uncovered
  /\ drawer.target # NoType /\ drawer.of # NoType
  /\ saving.state = "none" /\ MayRequest
  /\ hasty' = (hasty \/ ~Answered \/ drawer.error = "load")
  /\ saving' = [state |-> "sent", target |-> drawer.target, slug |-> drawer.slug,
                alien |-> drawer.of # drawer.target /\ ~hasty']
  /\ drawer' = [drawer EXCEPT !.error = "none"]
  /\ UNCHANGED <<server, items, listing, loads, deleting, mixed>>

\* onSaved, then onClose, whatever is open by now; or the error is shown.
SaveAnswered ==
  /\ saving.state # "none"
  /\ saving' = NotSaving
  /\ \/ /\ saving.state = "stored"
        /\ listing' = TRUE
        /\ drawer' = Shut /\ hasty' = FALSE
     \/ /\ saving.state \in {"stored", "failed"}
        /\ drawer' = Failed("save")
        /\ UNCHANGED <<listing, hasty>>
  /\ UNCHANGED <<server, items, loads, deleting, mixed>>

-----------------------------------------------------------------------------
(* create, update *)

\* What was sent is of no use once it is answered.
Become(state) == saving' = [NotSaving EXCEPT !.state = state]

\* A slug that another event type of the host has, or a location that is not
\* valid, is refused.
CreateType ==
  /\ saving.state = "sent" /\ saving.target = NewType
  /\ \/ /\ \E id \in TypeIds :
             /\ ~Exists(id)
             /\ types' = [types EXCEPT ![id] = [state |-> "active", slug |-> saving.slug]]
        /\ Become("stored")
     \/ UNCHANGED types /\ Become("failed")
  /\ UNCHANGED <<bookedTypes, deletedTypes, elsewhere, revived, items, listing, drawer, loads,
                 deleting, hasty, mixed>>

\* update looks at the row, and writes it by id alone.
UpdateChecked ==
  /\ saving.state = "sent" /\ saving.target # NewType
  /\ \/ /\ types[saving.target].state = "active"
        /\ saving' = [saving EXCEPT !.state = "checked"]
     \/ Become("failed")
  /\ UNCHANGED <<server, items, listing, drawer, loads, deleting, hasty, mixed>>

UpdateType ==
  /\ saving.state = "checked"
  /\ LET id == saving.target IN
     \/ /\ Exists(id)
        /\ types' = [types EXCEPT ![id].slug = saving.slug]
        /\ mixed' = (mixed \/ saving.alien)
        /\ revived' = IF id \in deletedTypes THEN revived \cup {id} ELSE revived
        /\ Become("stored")
     \/ UNCHANGED <<types, mixed, revived>> /\ Become("failed")
  /\ UNCHANGED <<bookedTypes, deletedTypes, elsewhere, items, listing, drawer, loads, deleting,
                 hasty>>

-----------------------------------------------------------------------------
(* handleConfirmDelete, delete *)

OpenDeleteModal(id) ==
  /\ Uncovered /\ ~listing
  /\ id \in items
  /\ deleting' = [Closed EXCEPT !.state = "open", !.id = id]
  /\ UNCHANGED <<server, items, listing, drawer, loads, saving, hasty, mixed>>

\* Cancel and Escape, not while the DELETE is on its way.
CloseDeleteModal ==
  /\ deleting.state = "open"
  /\ deleting' = Closed
  /\ UNCHANGED <<server, items, listing, drawer, loads, saving, hasty, mixed>>

\* The drawer that the answer will close is the one that is open now.
ConfirmDelete ==
  /\ deleting.state = "open" /\ MayRequest
  /\ deleting' = [deleting EXCEPT !.state = "sent", !.opened = (drawer.target = deleting.id)]
  /\ UNCHANGED <<server, items, listing, drawer, loads, saving, hasty, mixed>>

BookingsCounted ==
  /\ deleting.state = "sent"
  /\ deleting' = [deleting EXCEPT !.state =
       IF ~Exists(deleting.id) THEN "failed"
       ELSE IF deleting.id \in bookedTypes THEN "booked" ELSE "unbooked"]
  /\ UNCHANGED <<server, items, listing, drawer, loads, saving, hasty, mixed>>

\* Mutant of Restricted: the bookings of an event type do not hold it.
Unrestricted(id) == FALSE

\* The foreign key of bookings: onDelete Restrict.
Restricted(id) == id \in bookedTypes

\* Mutant of SoftDeleted: the slug is not released.
OnlyArchived(id) == [types[id] EXCEPT !.state = "archived"]

SoftDeleted(id) == [state |-> "archived", slug |-> "suffixed"]

DeleteType ==
  LET id == deleting.id IN
  /\ \/ /\ deleting.state = "booked" /\ Exists(id)
        /\ types' = [types EXCEPT ![id] = SoftDeleted(id)]
        /\ deletedTypes' = deletedTypes \cup {id}
        /\ revived' = revived \ {id}
        /\ deleting' = [deleting EXCEPT !.state = "done"]
     \/ /\ deleting.state = "unbooked" /\ Exists(id) /\ ~Restricted(id)
        /\ types' = [types EXCEPT ![id] = Absent]
        /\ deletedTypes' = deletedTypes \ {id} /\ revived' = revived \ {id}
        /\ deleting' = [deleting EXCEPT !.state = "done"]
     \/ /\ deleting.state \in {"booked", "unbooked"}
        /\ ~Exists(id) \/ (deleting.state = "unbooked" /\ Restricted(id))
        /\ deleting' = [deleting EXCEPT !.state = "failed"]
        /\ UNCHANGED <<types, deletedTypes, revived>>
  /\ UNCHANGED <<bookedTypes, elsewhere, items, listing, drawer, loads, saving, hasty, mixed>>

\* A lost answer reads like a failure: the modal stays.
DeleteAnswered ==
  /\ \/ /\ deleting.state = "done"
        /\ drawer' = IF deleting.opened THEN Shut ELSE drawer
        /\ deleting' = Closed
        /\ listing' = TRUE
     \/ /\ deleting.state \in {"done", "failed"}
        /\ deleting' = [deleting EXCEPT !.state = "open", !.opened = FALSE]
        /\ UNCHANGED <<drawer, listing>>
  /\ UNCHANGED <<server, items, loads, saving, hasty, mixed>>

-----------------------------------------------------------------------------
(* Attendees, and another tab of the host *)

\* The reference of a booking counts when it is inserted, and needs only the row:
\* create and reschedule read archivedAt before their transactions begin, so the
\* type may have been archived in between.
BookType(id) ==
  /\ Exists(id) /\ id \notin bookedTypes
  /\ bookedTypes' = bookedTypes \cup {id}
  /\ UNCHANGED <<types, deletedTypes, elsewhere, revived, items, listing, drawer, loads, saving,
                 deleting, hasty, mixed>>

\* archive, unarchive.
ArchiveElsewhere(id) ==
  /\ elsewhere < MaxElsewhere
  /\ elsewhere' = elsewhere + 1
  /\ \/ /\ types[id].state = "active"
        /\ types' = [types EXCEPT ![id].state = "archived"]
        /\ UNCHANGED deletedTypes
     \/ /\ types[id].state = "archived"
        /\ types' = [types EXCEPT ![id].state = "active"]
        /\ deletedTypes' = deletedTypes \ {id}
  /\ UNCHANGED <<bookedTypes, revived, items, listing, drawer, loads, saving, deleting, hasty,
                 mixed>>

DrawerNext ==
  \/ ListAnswered \/ OpenCreateDrawer \/ CloseDrawer \/ HandleSave \/ SaveAnswered
  \/ CreateType \/ UpdateChecked \/ UpdateType
  \/ CloseDeleteModal \/ ConfirmDelete \/ BookingsCounted \/ DeleteType \/ DeleteAnswered
  \/ \E l \in Loads : EventTypeLoaded(l)
  \/ \E id \in TypeIds : \/ OpenEditDrawer(id) \/ OpenDeleteModal(id)
                         \/ BookType(id) \/ ArchiveElsewhere(id)

DrawerSpec == TypesInit /\ [][DrawerNext]_typeVars

-----------------------------------------------------------------------------
DrawerTypeOK ==
  /\ types \in [TypeIds -> EventType]
  /\ bookedTypes \subseteq TypeIds /\ deletedTypes \subseteq TypeIds /\ revived \subseteq TypeIds
  /\ items \subseteq TypeIds /\ listing \in BOOLEAN
  /\ drawer \in Drawer
  /\ loads \in [Loads -> TypeIds \cup {NoType}]
  /\ saving \in Saving /\ deleting \in Deleting
  /\ elsewhere \in 0..MaxElsewhere /\ hasty \in BOOLEAN /\ mixed \in BOOLEAN

\* A save writes into an event type what was loaded of that one, as long as the
\* host lets every load and save end before opening the drawer on another one or
\* saving, and saves after no failed load.
OwnFormSaved == ~mixed

\* Deleting an event type keeps it when it has bookings, one made between the
\* count of its bookings and the deletion included.
BookedTypesKept == \A id \in bookedTypes : Exists(id)

\* A deleted event type that is kept has released its slug, unless an edit that
\* had passed the check for archived ones wrote it back.
DeletedReleasesSlug ==
  \A id \in deletedTypes : types[id].slug = "suffixed" \/ id \in revived

\* A deletion leaves a booking its event type and others the slug.
DeletionSound == BookedTypesKept /\ DeletedReleasesSlug
=============================================================================
