---------------------------- MODULE PhotoWatcher ----------------------------
(***************************************************************************)
(* The photos of the devices: the scan of the input folder before the      *)
(* server is up, the watcher with its debounce timers, and process_photo,  *)
(* which copies a photo to where the browsers get it and then sets the     *)
(* image of every device of that model.  Meanwhile photos are saved and    *)
(* taken away, and imports add devices and change their models.            *)
(***************************************************************************)
EXTENDS Naturals, Sequences

CONSTANTS
    Photos,      \* image files, by name; names differ in more than case
    Hidden,      \* those whose name begins with . or ~
    Sorted,      \* all of them in the order of sorted()
    ModelOf,     \* the stem of a file's name in lower case
    Models,      \* models of devices in lower case
    Devices, NoDevice,
    Versions,    \* contents of a photo
    NoPhoto,     \* no file, no image
    Torn,        \* a copy that was cut off
    Timers,      \* bound: timers that have fired and process a photo at a time
    Scan         \* the main thread, which scans before the server starts

Jobs == Timers \cup {Scan}

ASSUME PhotoAssumption ==
    /\ Hidden \subseteq Photos
    /\ Sorted \in Seq(Photos)
    /\ {Sorted[i] : i \in DOMAIN Sorted} = Photos
    /\ \A i, k \in DOMAIN Sorted : Sorted[i] = Sorted[k] => i = k
    /\ ModelOf \in [Photos -> Models]
    /\ NoPhoto \notin Photos \cup Versions
    /\ Torn \notin Versions \cup {NoPhoto}
    /\ NoDevice \notin Models
    /\ Scan \notin Timers

VARIABLES
    folder,    \* the input folder
    held,      \* photos that are locked by the program that has them open
    server,    \* the process: down, scanning, up
    events,    \* photos with an event in the observer's queue
    waiting,   \* photos whose timer in _timers has not fired
    todo,      \* what the scan has left
    job,       \* process_photo on each thread
    serve,     \* the frontend's images directory
    model,     \* the devices table: model, and image_path
    image,
    unread,    \* observation: saves the watcher was told of, not yet read
    still      \* observation: nothing has happened beside the scan

folderVars == <<folder, held>>
watchVars == <<events, waiting>>
deviceVars == <<model, image>>
vars == <<folderVars, server, watchVars, todo, job, serve, deviceVars, unread, still>>

NoJob == [at |-> "idle", photo |-> NoPhoto, copy |-> NoPhoto, found |-> {}]

Init ==
    /\ folder \in [Photos -> Versions \cup {NoPhoto}]
    /\ held = {}
    /\ server = "down"
    /\ events = {}
    /\ waiting = {}
    /\ todo = {}
    /\ job = [j \in Jobs |-> NoJob]
    /\ serve = [f \in Photos |-> NoPhoto]
    /\ model = [d \in Devices |-> NoDevice]
    /\ image = [d \in Devices |-> NoPhoto]
    /\ unread = {}
    /\ still = FALSE

-----------------------------------------------------------------------------
(* The people who put photos into the folder, and the imports *)

\* A photo is saved in place: created or modified.
SavePhoto(f, v) ==
    /\ folder' = [folder EXCEPT ![f] = v]
    /\ still' = FALSE
    /\ IF server = "up"
       THEN events' = events \cup {f} /\ unread' = unread \cup ({f} \ Hidden)
       ELSE UNCHANGED <<events, unread>>
    /\ UNCHANGED <<held, server, waiting, todo, job, serve, deviceVars>>

\* A photo is renamed to this name or deleted: events without a handler.
MovePhoto(f, v) ==
    /\ folder' = [folder EXCEPT ![f] = v]
    /\ still' = FALSE
    /\ UNCHANGED <<held, server, watchVars, todo, job, serve, deviceVars, unread>>

HoldPhoto(f) ==
    /\ held' = IF f \in held THEN held \ {f} ELSE held \cup {f}
    /\ still' = FALSE
    /\ UNCHANGED <<folder, server, watchVars, todo, job, serve, deviceVars, unread>>

\* An import creates the device without an image, or writes its model over
\* the old one and leaves the image alone: sheets are taken to have no column
\* for images, and nobody sets one by hand.
ImportDevice(d, m) ==
    /\ model[d] # m
    /\ model' = [model EXCEPT ![d] = m]
    /\ still' = FALSE
    /\ UNCHANGED <<folderVars, server, watchVars, todo, job, serve, image, unread>>

-----------------------------------------------------------------------------
(* The scan and the watcher *)

Begin(j, f) == job' = [job EXCEPT ![j].at = "read", ![j].photo = f]

\* f does not come after g in the order of sorted().
UpTo(f, g) == \E i, k \in DOMAIN Sorted : i <= k /\ Sorted[i] = f /\ Sorted[k] = g

\* run_server lists the folder.
StartScan ==
    /\ server = "down"
    /\ server' = "scanning"
    /\ todo' = {f \in Photos : folder[f] # NoPhoto}
    /\ still' = (held = {})
    /\ UNCHANGED <<folderVars, watchVars, job, serve, deviceVars, unread>>

ScanNext ==
    /\ server = "scanning"
    /\ job[Scan].at = "idle"
    /\ \E f \in todo :
          /\ \A g \in todo : UpTo(f, g)
          /\ Begin(Scan, f)
          /\ todo' = todo \ {f}
    /\ UNCHANGED <<folderVars, server, watchVars, serve, deviceVars, unread, still>>

\* The observer is started; what was saved since the scan is not noticed.
StartWatcher ==
    /\ server = "scanning"
    /\ todo = {}
    /\ job[Scan].at = "idle"
    /\ server' = "up"
    /\ still' = FALSE
    /\ UNCHANGED <<folderVars, watchVars, todo, job, serve, deviceVars, unread>>

\* Mutant: an event of a photo that is being processed is taken for an echo.
HandleEvent_SkipsBusy(f) ==
    /\ f \in events
    /\ events' = events \ {f}
    /\ waiting' = IF f \in Hidden \/ \E j \in Jobs : job[j].photo = f
                  THEN waiting ELSE waiting \cup {f}
    /\ UNCHANGED <<folderVars, server, todo, job, serve, deviceVars, unread, still>>

\* The photo's timer, if it waits, is replaced by a new one.
HandleEvent(f) ==
    /\ f \in events
    /\ events' = events \ {f}
    /\ waiting' = IF f \in Hidden THEN waiting ELSE waiting \cup {f}
    /\ UNCHANGED <<folderVars, server, todo, job, serve, deviceVars, unread, still>>

\* The window of a photo's timer is over.
Fire(f, t) ==
    /\ f \in waiting
    /\ job[t].at = "idle"
    /\ waiting' = waiting \ {f}
    /\ Begin(t, f)
    /\ UNCHANGED <<folderVars, server, events, todo, serve, deviceVars, unread, still>>

Stopped ==
    /\ server' = "down"
    /\ events' = {}
    /\ waiting' = {}
    /\ todo' = {}
    /\ job' = [j \in Jobs |-> NoJob]
    /\ unread' = {}
    /\ still' = FALSE

\* Mutant: the timers outlive the process.
Exit_KeepsTimers ==
    /\ server # "down"
    /\ server' = "down"
    /\ events' = {}
    /\ todo' = {}
    /\ job' = [j \in Jobs |-> NoJob]
    /\ unread' = {}
    /\ still' = FALSE
    /\ UNCHANGED <<folderVars, waiting, serve, deviceVars>>

\* The process ends, stopped or killed.  Nothing waits for the daemon threads
\* of the timers, so a copy may be cut off.
Exit ==
    /\ server # "down"
    /\ Stopped
    /\ \E cut \in SUBSET {job[j].photo : j \in {i \in Jobs : job[i].at = "write"}} :
          serve' = [f \in Photos |-> IF f \in cut THEN Torn ELSE serve[f]]
    /\ UNCHANGED <<folderVars, deviceVars>>

-----------------------------------------------------------------------------
(* process_photo *)

To(j, at) == job' = [job EXCEPT ![j].at = at]
Finish(j) == job' = [job EXCEPT ![j] = NoJob]

\* Mutant: a photo that could not be copied is applied all the same.
ReadPhoto_GoesOn(j) ==
    /\ job[j].at = "read"
    /\ LET f == job[j].photo
       IN /\ IF folder[f] = NoPhoto \/ f \in held
             THEN To(j, "find")
             ELSE job' = [job EXCEPT ![j].at = "write", ![j].copy = folder[f]]
          /\ unread' = unread \ {f}
    /\ UNCHANGED <<folderVars, server, watchVars, todo, serve, deviceVars, still>>

\* A photo that is gone or locked is not copied, and not tried again.
ReadPhoto(j) ==
    /\ job[j].at = "read"
    /\ LET f == job[j].photo
       IN /\ IF folder[f] = NoPhoto \/ f \in held
             THEN Finish(j)
             ELSE job' = [job EXCEPT ![j].at = "write", ![j].copy = folder[f]]
          /\ unread' = unread \ {f}
    /\ UNCHANGED <<folderVars, server, watchVars, todo, serve, deviceVars, still>>

\* Two timers may copy one photo at once, when copying takes longer than the
\* window: the older content may come last.
WriteCopy(j) ==
    /\ job[j].at = "write"
    /\ serve' = [serve EXCEPT ![job[j].photo] = job[j].copy]
    /\ job' = [job EXCEPT ![j].at = "find", ![j].copy = NoPhoto]
    /\ UNCHANGED <<folderVars, server, watchVars, todo, deviceVars, unread, still>>

OfModel(f) == {d \in Devices : model[d] = ModelOf[f]}

\* Mutant: a device keeps the image it has.
Outdated_Unset(f) == {d \in OfModel(f) : image[d] = NoPhoto}

\* The devices of the model that do not show the photo.
Outdated(f) == {d \in OfModel(f) : image[d] # f}

FindDevices(j) ==
    /\ job[j].at = "find"
    /\ LET found == Outdated(job[j].photo)
       IN IF found = {} THEN Finish(j)
          ELSE job' = [job EXCEPT ![j].at = "set", ![j].found = found]
    /\ UNCHANGED <<folderVars, server, watchVars, todo, serve, deviceVars, unread, still>>

SetImages(j) ==
    /\ job[j].at = "set"
    /\ image' = [d \in Devices |-> IF d \in job[j].found THEN job[j].photo ELSE image[d]]
    /\ Finish(j)
    /\ UNCHANGED <<folderVars, server, watchVars, todo, serve, model, unread, still>>

\* The busy timeout of the database, or an error of the copy, which then may
\* have written a part of the file: nobody catches the exception.  It ends a
\* timer's thread; in the scan it ends the start of the server.
Raised(j) ==
    /\ job[j].at \in {"write", "set"}
    /\ serve' \in IF job[j].at = "set" THEN {serve}
                  ELSE {serve, [serve EXCEPT ![job[j].photo] = Torn]}
    /\ IF j = Scan THEN Stopped
       ELSE /\ Finish(j)
            /\ UNCHANGED <<server, watchVars, todo, unread, still>>
    /\ UNCHANGED <<folderVars, deviceVars>>

JobStep(j) == ReadPhoto(j) \/ WriteCopy(j) \/ FindDevices(j) \/ SetImages(j) \/ Raised(j)

Next ==
    \/ \E f \in Photos, v \in Versions : SavePhoto(f, v)
    \/ \E f \in Photos, v \in Versions \cup {NoPhoto} : MovePhoto(f, v)
    \/ \E f \in Photos : HoldPhoto(f)
    \/ \E d \in Devices, m \in Models : ImportDevice(d, m)
    \/ StartScan \/ ScanNext \/ StartWatcher \/ Exit
    \/ \E f \in Photos : HandleEvent(f)
    \/ \E f \in Photos, t \in Timers : Fire(f, t)
    \/ \E j \in Jobs : JobStep(j)

Spec == Init /\ [][Next]_vars

\* The observer's thread and the timers' run.  That a timer fires assumes that
\* its photo is not saved every two seconds for ever.
FairSpec ==
    /\ Spec
    /\ \A f \in Photos :
          /\ WF_vars(HandleEvent(f))
          /\ WF_vars(\E t \in Timers : Fire(f, t))
    /\ \A j \in Jobs : WF_vars(JobStep(j))

-----------------------------------------------------------------------------
(* Properties *)

Job == [at : {"idle", "read", "write", "find", "set"}, photo : Photos \cup {NoPhoto},
        copy : Versions \cup {NoPhoto}, found : SUBSET Devices]

\* Files, timers, threads and tables have the values their code can give them;
\* nothing of a watcher outlives its process, and no timer is for a file that
\* is to be skipped.
TypeOK ==
    /\ folder \in [Photos -> Versions \cup {NoPhoto}]
    /\ held \subseteq Photos
    /\ server \in {"down", "scanning", "up"}
    /\ events \subseteq Photos
    /\ waiting \subseteq Photos \ Hidden
    /\ todo \subseteq Photos
    /\ job \in [Jobs -> Job]
    /\ serve \in [Photos -> Versions \cup {NoPhoto, Torn}]
    /\ model \in [Devices -> Models \cup {NoDevice}]
    /\ image \in [Devices -> Photos \cup {NoPhoto}]
    /\ unread \subseteq Photos \ Hidden
    /\ still \in BOOLEAN
    /\ \A j \in Jobs : job[j].at # "idle" => job[j].photo \in Photos
    /\ server # "up" => events = {} /\ waiting = {}

\* The browsers never ask for an image that is not there: wherever photos are
\* locked, deleted or renamed, and whatever was cut off, the image of a device
\* has been copied before.  A copy that was cut off counts: ScanComplete is the
\* property that has it replaced.
ShownIsServed == \A d \in Devices : image[d] # NoPhoto => serve[image[d]] # NoPhoto

LastOfModel(f) ==
    \A g \in Photos : ModelOf[g] = ModelOf[f] => folder[g] = NoPhoto \/ UpTo(g, f)

\* "so the database is up-to-date before the first user interaction": when
\* nothing happens beside the scan, then every photo is served as it is when
\* the watcher starts, a copy that was cut off last time included, and every
\* device shows the photo of its model that comes last in sorted order.
ScanComplete ==
    [][server = "scanning" /\ server' = "up" /\ still =>
          \A f \in Photos : folder[f] # NoPhoto =>
              /\ serve[f] = folder[f]
              /\ LastOfModel(f) => \A d \in OfModel(f) : image[d] = f]_vars

\* A save the watcher is told of is followed by an attempt to read the photo,
\* although timers are replaced and threads may be busy with an older state
\* of it.  (The attempt may fail, and there is no other.)
SavedIsRead == \A f \in Photos : f \in unread ~> f \notin unread
=============================================================================
