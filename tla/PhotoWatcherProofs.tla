------------------------- MODULE PhotoWatcherProofs -------------------------
(***************************************************************************)
(* Theorems about PhotoWatcher, for any number of photos, devices and      *)
(* timers: the type invariant, that no device shows an image that has not  *)
(* been copied to where the browsers get it, that the scan before the      *)
(* start is complete, and that no save the watcher was told of is dropped. *)
(***************************************************************************)
EXTENDS PhotoWatcher, TLAPS

LEMMA JobTypes == NoJob \in Job /\ NoJob.at = "idle"
BY DEF NoJob, Job

LEMMA BeginType ==
    ASSUME job \in [Jobs -> Job], NEW j \in Jobs, NEW f \in Photos, Begin(j, f)
    PROVE  job' \in [Jobs -> Job] /\ job'[j].photo = f
<1>1. [job[j] EXCEPT !.at = "read", !.photo = f] \in Job
    BY DEF Job
<1>2. job' = [job EXCEPT ![j] = [job[j] EXCEPT !.at = "read", !.photo = f]]
    BY DEF Begin
<1>3. job[j] \in Job
    OBVIOUS
<1>4. QED
    BY <1>1, <1>2, <1>3 DEF Job

\* The watcher's variables keep their types, nothing of it outlives its
\* process, and no timer is for a file that is to be skipped.
THEOREM TypeCorrect == Spec => []TypeOK
<1>1. Init => TypeOK
    BY JobTypes DEF Init, TypeOK
<1>2. TypeOK /\ [Next]_vars => TypeOK'
    <2> SUFFICES ASSUME TypeOK, [Next]_vars PROVE TypeOK'
        OBVIOUS
    <2> USE DEF TypeOK
    <2>1. ASSUME NEW f \in Photos, NEW v \in Versions, SavePhoto(f, v) PROVE TypeOK'
        BY <2>1 DEF SavePhoto, deviceVars
    <2>2. ASSUME NEW f \in Photos, NEW v \in Versions \cup {NoPhoto}, MovePhoto(f, v)
          PROVE  TypeOK'
        BY <2>2 DEF MovePhoto, deviceVars, watchVars
    <2>3. ASSUME NEW f \in Photos, HoldPhoto(f) PROVE TypeOK'
        BY <2>3 DEF HoldPhoto, deviceVars, watchVars
    <2>4. ASSUME NEW d \in Devices, NEW m \in Models, ImportDevice(d, m) PROVE TypeOK'
        BY <2>4 DEF ImportDevice, folderVars, watchVars
    <2>5. ASSUME StartScan PROVE TypeOK'
        BY <2>5 DEF StartScan, folderVars, watchVars, deviceVars
    <2>6. ASSUME ScanNext PROVE TypeOK'
        <3>1. job' \in [Jobs -> Job]
            BY <2>6, BeginType DEF ScanNext, Jobs
        <3>2. \A i \in Jobs : job'[i].at # "idle" => job'[i].photo \in Photos
            BY <2>6 DEF ScanNext, Begin, Job, Jobs
        <3>3. QED
            BY <2>6, <3>1, <3>2 DEF ScanNext, folderVars, watchVars, deviceVars
    <2>7. ASSUME StartWatcher PROVE TypeOK'
        BY <2>7 DEF StartWatcher, folderVars, watchVars, deviceVars
    <2>8. ASSUME NEW f \in Photos, HandleEvent(f) PROVE TypeOK'
        BY <2>8 DEF HandleEvent, folderVars, deviceVars
    <2>9. ASSUME NEW f \in Photos, NEW t \in Timers, Fire(f, t) PROVE TypeOK'
        <3>1. job' \in [Jobs -> Job]
            BY <2>9, BeginType DEF Fire, Jobs
        <3>2. \A i \in Jobs : job'[i].at # "idle" => job'[i].photo \in Photos
            BY <2>9 DEF Fire, Begin, Job, Jobs
        <3>3. QED
            BY <2>9, <3>1, <3>2 DEF Fire, folderVars, deviceVars
    <2>10. ASSUME Exit PROVE TypeOK'
        BY <2>10, JobTypes DEF Exit, Stopped, folderVars, deviceVars
    <2>11. ASSUME NEW j \in Jobs, ReadPhoto(j) PROVE TypeOK'
        BY <2>11, JobTypes DEF ReadPhoto, Finish, Job, folderVars, watchVars, deviceVars
    <2>12. ASSUME NEW j \in Jobs, WriteCopy(j) PROVE TypeOK'
        <3>1. job' \in [Jobs -> Job]
            <4>1. [job[j] EXCEPT !.at = "find", !.copy = NoPhoto] \in Job
                BY DEF Job
            <4>2. job' = [job EXCEPT ![j] = [job[j] EXCEPT !.at = "find", !.copy = NoPhoto]]
                BY <2>12 DEF WriteCopy
            <4>3. QED
                BY <4>1, <4>2
        <3>2. \A i \in Jobs : job'[i].at # "idle" => job'[i].photo \in Photos
            BY <2>12 DEF WriteCopy, Job
        <3>3. serve' \in [Photos -> Versions \cup {NoPhoto, Torn}]
            BY <2>12 DEF WriteCopy, Job
        <3>4. QED
            BY <2>12, <3>1, <3>2, <3>3 DEF WriteCopy, folderVars, watchVars, deviceVars
    <2>13. ASSUME NEW j \in Jobs, FindDevices(j) PROVE TypeOK'
        BY <2>13, JobTypes DEF FindDevices, Outdated, OfModel, Finish, Job,
                               folderVars, watchVars, deviceVars
    <2>14. ASSUME NEW j \in Jobs, SetImages(j) PROVE TypeOK'
        BY <2>14, JobTypes DEF SetImages, Finish, Job, folderVars, watchVars
    <2>15. ASSUME NEW j \in Jobs, Raised(j) PROVE TypeOK'
        <3>1. serve' \in [Photos -> Versions \cup {NoPhoto, Torn}]
            BY <2>15 DEF Raised
        <3>2. CASE j = Scan
            BY <2>15, <3>1, <3>2, JobTypes DEF Raised, Stopped, folderVars, deviceVars
        <3>3. CASE j # Scan
            BY <2>15, <3>1, <3>3, JobTypes
               DEF Raised, Finish, folderVars, watchVars, deviceVars
        <3>4. QED
            BY <3>2, <3>3
    <2>16. CASE UNCHANGED vars
        BY <2>16 DEF vars, folderVars, watchVars, deviceVars
    <2>17. QED
        BY <2>1, <2>2, <2>3, <2>4, <2>5, <2>6, <2>7, <2>8, <2>9, <2>10, <2>11,
           <2>12, <2>13, <2>14, <2>15, <2>16 DEF Next, JobStep
<1>3. QED
    BY <1>1, <1>2, PTL DEF Spec

-----------------------------------------------------------------------------
(***************************************************************************)
(* An image is set only by a job that has copied the photo before, so the  *)
(* invariant has to say what a job knows: what it is about to write is a   *)
(* photo, and once it looks for devices there is a copy.  Nobody takes     *)
(* copies away: what Exit cuts off stays there, torn.                      *)
(***************************************************************************)
Copied(j) ==
    /\ job[j].at = "write" => job[j].copy \in Versions
    /\ job[j].at \in {"find", "set"} => serve[job[j].photo] # NoPhoto

ServedInv == ShownIsServed /\ \A j \in Jobs : Copied(j)

\* A step that takes no copy away, sets no image and lets no job get further.
LEMMA ServedStays ==
    ASSUME TypeOK, ServedInv,
           \A f \in Photos : serve[f] # NoPhoto => serve'[f] # NoPhoto,
           image' = image,
           \A j \in Jobs : \/ job'[j] = job[j]
                           \/ job'[j].at \in {"idle", "read"}
    PROVE  ServedInv'
<1>1. ShownIsServed'
    BY DEF ServedInv, TypeOK, ShownIsServed
<1>2. ASSUME NEW j \in Jobs PROVE Copied(j)'
    <2>1. CASE job'[j] = job[j]
        <3>1. job[j].at \in {"find", "set"} => job[j].photo \in Photos
            BY DEF ServedInv, TypeOK
        <3>2. QED
            BY <2>1, <3>1 DEF ServedInv, Copied
    <2>2. CASE job'[j].at \in {"idle", "read"}
        BY <2>2 DEF Copied
    <2>3. QED
        BY <2>1, <2>2
<1>3. QED
    BY <1>1, <1>2 DEF ServedInv

LEMMA ServedStep ==
    ASSUME TypeOK, ServedInv, [Next]_vars
    PROVE  ServedInv'
<1> USE DEF ServedInv, TypeOK
<1>1. ASSUME \/ \E f \in Photos, v \in Versions : SavePhoto(f, v)
             \/ \E f \in Photos, v \in Versions \cup {NoPhoto} : MovePhoto(f, v)
             \/ \E f \in Photos : HoldPhoto(f) \/ HandleEvent(f)
             \/ \E d \in Devices, m \in Models : ImportDevice(d, m)
             \/ StartScan \/ StartWatcher \/ UNCHANGED vars
      PROVE  ServedInv'
    <2>1. serve' = serve /\ image' = image /\ job' = job
        BY <1>1 DEF SavePhoto, MovePhoto, HoldPhoto, HandleEvent, ImportDevice,
                    StartScan, StartWatcher, deviceVars, vars
    <2>2. QED
        BY <2>1, ServedStays
<1>2. ASSUME ScanNext \/ \E f \in Photos, t \in Timers : Fire(f, t)
      PROVE  ServedInv'
    <2>1. serve' = serve /\ image' = image
        BY <1>2 DEF ScanNext, Fire, deviceVars
    <2>2. PICK j \in Jobs, f \in Photos : Begin(j, f)
        BY <1>2 DEF ScanNext, Fire, Jobs
    <2>3. \A i \in Jobs : job'[i] = job[i] \/ job'[i].at \in {"idle", "read"}
        BY <2>2 DEF Begin, Job
    <2>4. QED
        BY <2>1, <2>3, ServedStays
<1>3. ASSUME Exit PROVE ServedInv'
    <2>1. \A f \in Photos : serve[f] # NoPhoto => serve'[f] # NoPhoto
        BY <1>3, PhotoAssumption DEF Exit
    <2>2. image' = image /\ \A j \in Jobs : job'[j].at = "idle"
        BY <1>3, JobTypes DEF Exit, Stopped, deviceVars
    <2>3. QED
        BY <2>1, <2>2, ServedStays
<1>4. ASSUME NEW j \in Jobs, ReadPhoto(j)
      PROVE  ServedInv'
    <2>1. ShownIsServed'
        BY <1>4 DEF ReadPhoto, ShownIsServed, deviceVars
    <2>2. ASSUME NEW i \in Jobs, i # j PROVE Copied(i)'
        BY <1>4, <2>2 DEF ReadPhoto, Finish, Copied
    <2>3. Copied(j)'
        <3>1. job[j].photo \in Photos
            BY <1>4 DEF ReadPhoto
        <3>2. CASE folder[job[j].photo] = NoPhoto \/ job[j].photo \in held
            BY <1>4, <3>2, JobTypes DEF ReadPhoto, Finish, Copied
        <3>3. CASE ~(folder[job[j].photo] = NoPhoto \/ job[j].photo \in held)
            BY <1>4, <3>1, <3>3 DEF ReadPhoto, Copied, Job
        <3>4. QED
            BY <3>2, <3>3
    <2>4. QED
        BY <2>1, <2>2, <2>3
<1>5. ASSUME NEW j \in Jobs, WriteCopy(j)
      PROVE  ServedInv'
    <2>1. job[j].copy \in Versions /\ job[j].copy # NoPhoto /\ job[j].photo \in Photos
        BY <1>5, PhotoAssumption DEF WriteCopy, Copied
    <2>2. \A f \in Photos : serve'[f] = serve[f] \/ (f = job[j].photo /\ serve'[f] # NoPhoto)
        BY <1>5, <2>1 DEF WriteCopy
    <2>3. ShownIsServed'
        BY <1>5, <2>2 DEF WriteCopy, ShownIsServed, deviceVars
    <2>4. ASSUME NEW i \in Jobs, i # j PROVE Copied(i)'
        <3>1. job'[i] = job[i]
            BY <1>5, <2>4 DEF WriteCopy
        <3>2. QED
            BY <2>2, <3>1 DEF Copied
    <2>5. Copied(j)'
        <3>1. job'[j].at = "find" /\ job'[j].photo = job[j].photo
            BY <1>5 DEF WriteCopy, Job
        <3>2. serve'[job[j].photo] = job[j].copy
            BY <1>5, <2>1 DEF WriteCopy
        <3>3. QED
            BY <2>1, <3>1, <3>2 DEF Copied
    <2>6. QED
        BY <2>3, <2>4, <2>5
<1>6. ASSUME NEW j \in Jobs, FindDevices(j)
      PROVE  ServedInv'
    <2>1. serve' = serve /\ image' = image
        BY <1>6 DEF FindDevices, deviceVars
    <2>2. \A i \in Jobs \ {j} : job'[i] = job[i]
        BY <1>6 DEF FindDevices, Finish
    <2>3. Copied(j)'
        <3>1. CASE Outdated(job[j].photo) = {}
            BY <1>6, <3>1, JobTypes DEF FindDevices, Finish, Copied
        <3>2. CASE Outdated(job[j].photo) # {}
            <4>1. job'[j].at = "set" /\ job'[j].photo = job[j].photo
                BY <1>6, <3>2 DEF FindDevices, Job
            <4>2. QED
                BY <1>6, <2>1, <4>1 DEF FindDevices, Copied
        <3>3. QED
            BY <3>1, <3>2
    <2>4. QED
        BY <2>1, <2>2, <2>3 DEF Copied, ShownIsServed
<1>7. ASSUME NEW j \in Jobs, SetImages(j)
      PROVE  ServedInv'
    <2>1. serve' = serve /\ serve[job[j].photo] # NoPhoto
        BY <1>7 DEF SetImages, Copied
    <2>2. ShownIsServed'
        BY <1>7, <2>1 DEF SetImages, ShownIsServed
    <2>3. \A i \in Jobs : job'[i] = job[i] \/ job'[i].at = "idle"
        BY <1>7, JobTypes DEF SetImages, Finish
    <2>4. QED
        BY <2>1, <2>2, <2>3 DEF Copied
<1>8. ASSUME NEW j \in Jobs, Raised(j)
      PROVE  ServedInv'
    <2>1. image' = image /\ \A f \in Photos : serve'[f] = serve[f] \/ serve'[f] = Torn
        BY <1>8 DEF Raised, deviceVars, TypeOK
    <2>2. \A i \in Jobs : job'[i] = job[i] \/ job'[i].at = "idle"
        BY <1>8, JobTypes DEF Raised, Stopped, Finish
    <2>3. QED
        BY <2>1, <2>2, ServedStays, PhotoAssumption
<1>9. QED
    BY <1>1, <1>2, <1>3, <1>4, <1>5, <1>6, <1>7, <1>8 DEF Next, JobStep

\* No device shows an image that is not there, with any number of timers that
\* copy photos at the same time, and wherever the process ends.
THEOREM ShownServed == Spec => []ShownIsServed
<1>1. Init => ServedInv
    BY JobTypes DEF Init, ServedInv, ShownIsServed, Copied
<1>2. TypeOK /\ ServedInv /\ [Next]_vars => ServedInv'
    BY ServedStep
<1>3. QED
    BY <1>1, <1>2, TypeCorrect, PTL DEF Spec, ServedInv

-----------------------------------------------------------------------------
(***************************************************************************)
(* The scan.  It takes the photos in sorted order, so of two photos of one *)
(* model the later one is applied later; as long as nobody interferes, the *)
(* devices of a model show the last photo of it that is done.              *)
(***************************************************************************)
LEMMA UpToOrder ==
    ASSUME NEW f \in Photos, NEW g \in Photos, UpTo(f, g), UpTo(g, f)
    PROVE  f = g
<1>1. PICK i, k \in DOMAIN Sorted : i <= k /\ Sorted[i] = f /\ Sorted[k] = g
    BY DEF UpTo
<1>2. PICK m, n \in DOMAIN Sorted : m <= n /\ Sorted[m] = g /\ Sorted[n] = f
    BY DEF UpTo
<1>3. i = n /\ k = m
    BY <1>1, <1>2, PhotoAssumption
<1>4. i \in Nat /\ k \in Nat
    BY PhotoAssumption
<1>5. QED
    BY <1>1, <1>2, <1>3, <1>4

\* Before the watcher is started only the scan processes photos, and the scan
\* only then.
Alone ==
    /\ server \in {"down", "scanning"} => \A t \in Timers : job[t].at = "idle"
    /\ server # "scanning" => job[Scan].at = "idle"

LEMMA ScanJob == Scan \in Jobs /\ Scan \notin Timers /\ Timers \subseteq Jobs
BY PhotoAssumption DEF Jobs

LEMMA AloneStep ==
    ASSUME TypeOK, Alone, [Next]_vars
    PROVE  Alone'
<1> USE ScanJob DEF Alone, TypeOK
<1>1. CASE UNCHANGED <<server, job>>
    BY <1>1
<1>2. CASE StartScan
    BY <1>2 DEF StartScan
<1>3. CASE ScanNext
    BY <1>3 DEF ScanNext, Begin
<1>4. CASE StartWatcher
    BY <1>4 DEF StartWatcher
<1>5. ASSUME NEW f \in Photos, NEW t \in Timers, Fire(f, t) PROVE Alone'
    BY <1>5 DEF Fire, Begin
<1>6. CASE Stopped
    BY <1>6, JobTypes DEF Stopped
<1>7. ASSUME NEW j \in Jobs, JobStep(j), server' = server,
             \A i \in Jobs \ {j} : job'[i] = job[i]
      PROVE  Alone'
    <2>1. job[j].at # "idle"
        BY <1>7 DEF JobStep, ReadPhoto, WriteCopy, FindDevices, SetImages, Raised
    <2>2. QED
        BY <1>7, <2>1, JobTypes DEF Jobs
<1>8. ASSUME NEW j \in Jobs, JobStep(j), ~Stopped
      PROVE  server' = server /\ \A i \in Jobs \ {j} : job'[i] = job[i]
    BY <1>8 DEF JobStep, ReadPhoto, WriteCopy, FindDevices, SetImages, Raised, To, Finish
<1>9. QED
    BY <1>1, <1>2, <1>3, <1>4, <1>5, <1>6, <1>7, <1>8 DEF Next, SavePhoto, MovePhoto,
       HoldPhoto, ImportDevice, HandleEvent, Exit, vars

\* The photos the scan is through with.
Done ==
    {f \in Photos : /\ folder[f] # NoPhoto /\ f \notin todo
                    /\ job[Scan].at # "idle" => job[Scan].photo # f}

Applied(f) ==
    /\ serve[f] = folder[f]
    /\ (\A g \in Done : ModelOf[g] = ModelOf[f] => UpTo(g, f)) =>
          \A d \in OfModel(f) : image[d] = f

\* The photo f in hand.
InWork(f) ==
    /\ f \notin todo /\ folder[f] # NoPhoto
    /\ \A g \in Done : UpTo(g, f)
    /\ \A g \in todo : UpTo(f, g)
    /\ job[Scan].at = "write" => job[Scan].copy = folder[f]
    /\ job[Scan].at \in {"find", "set"} => serve[f] = folder[f]
    /\ job[Scan].at = "set" => job[Scan].found = Outdated(f)

Scanned ==
    /\ held = {}
    /\ \A f \in todo : folder[f] # NoPhoto
    /\ \A f \in Done, g \in todo : UpTo(f, g)
    /\ \A f \in Done : Applied(f)
    /\ job[Scan].at # "idle" => InWork(job[Scan].photo)

ScanInv == server = "scanning" /\ still => Scanned

\* A photo is done: every device of its model shows it, and those of other
\* models what they showed before.
LEMMA PhotoDone ==
    ASSUME TypeOK, Scanned, NEW f \in Photos,
           job[Scan].at \in {"find", "set"}, f = job[Scan].photo,
           job'[Scan].at = "idle", UNCHANGED <<folder, held, todo, serve, model>>,
           \A d \in Devices : image'[d] = IF d \in OfModel(f) THEN f ELSE image[d]
    PROVE  Scanned'
<1>1. InWork(f) /\ f \notin Done
    BY DEF Scanned, Done
<1>2. Done' = Done \cup {f}
    BY <1>1 DEF Done, InWork
<1>3. \A g \in Photos : OfModel(g)' = OfModel(g)
    BY DEF OfModel
<1>4. Applied(f)'
    BY <1>1, <1>3 DEF Applied, InWork, OfModel
<1>5. ASSUME NEW g \in Done PROVE Applied(g)'
    <2>1. g \in Photos /\ g # f /\ Applied(g) /\ UpTo(g, f)
        BY <1>1 DEF Scanned, Done, InWork
    <2>2. serve'[g] = folder'[g]
        BY <2>1 DEF Applied
    <2>3. ASSUME \A h \in Done' : ModelOf[h] = ModelOf[g] => UpTo(h, g),
                 NEW d \in OfModel(g)
          PROVE  image'[d] = g
        <3>1. ModelOf[f] # ModelOf[g]
            BY <1>2, <2>1, <2>3, UpToOrder
        <3>2. d \in Devices /\ d \notin OfModel(f)
            BY <2>3, <3>1 DEF OfModel
        <3>3. image[d] = g
            BY <1>2, <2>1, <2>3 DEF Applied
        <3>4. QED
            BY <3>2, <3>3
    <2>4. QED
        BY <1>3, <2>1, <2>2, <2>3 DEF Applied, UpTo
<1>6. \A g \in Done', h \in todo' : UpTo(g, h)'
    BY <1>1, <1>2 DEF Scanned, InWork, UpTo
<1>7. QED
    BY <1>2, <1>4, <1>5, <1>6 DEF Scanned

\* The scan's job goes on with the photo it has in hand.
LEMMA ScanGoesOn ==
    ASSUME TypeOK, Scanned, job[Scan].at # "idle", job'[Scan].at # "idle",
           job'[Scan].photo = job[Scan].photo,
           UNCHANGED <<folder, held, todo, model, image>>,
           \A g \in Photos : g # job[Scan].photo => serve'[g] = serve[g],
           job'[Scan].at = "write" => job'[Scan].copy = folder[job[Scan].photo],
           job'[Scan].at \in {"find", "set"} =>
               serve'[job[Scan].photo] = folder[job[Scan].photo],
           job'[Scan].at = "set" => job'[Scan].found = Outdated(job[Scan].photo)
    PROVE  Scanned'
<1> DEFINE f == job[Scan].photo
<1>1. Done' = Done /\ f \notin Done /\ Done \subseteq Photos /\ InWork(f)
    BY DEF Done, Scanned
<1>2. \A g \in Done : Applied(g)'
    BY <1>1 DEF Scanned, Applied, OfModel, UpTo
<1>3. Outdated(f)' = Outdated(f)
    BY DEF Outdated, OfModel
<1>4. InWork(f)'
    BY <1>1, <1>3 DEF InWork, UpTo
<1>5. (\A g \in Done, h \in todo : UpTo(g, h)) /\ UNCHANGED job[Scan].photo
    BY DEF Scanned
<1>6. QED
    BY <1>1, <1>2, <1>4, <1>5 DEF Scanned, UpTo

LEMMA ScanJobStep ==
    ASSUME TypeOK, Alone, ScanInv, NEW j \in Jobs, JobStep(j)
    PROVE  ScanInv'
<1> SUFFICES ASSUME server' = "scanning", still'
             PROVE  Scanned'
    BY DEF ScanInv
<1>1. ~Stopped /\ UNCHANGED <<server, still, folder, held, todo, model>>
    BY DEF JobStep, ReadPhoto, WriteCopy, FindDevices, SetImages, Raised, Stopped,
           folderVars, deviceVars
<1>2. Scanned /\ job[Scan] \in Job
    BY <1>1, ScanJob DEF ScanInv, TypeOK
<1>3. j = Scan
    BY <1>1 DEF Alone, Jobs, JobStep, ReadPhoto, WriteCopy, FindDevices, SetImages, Raised
<1>4. ~Raised(j)
    BY <1>1, <1>3 DEF Raised
<1> DEFINE f == job[Scan].photo
<1>5. f \in Photos /\ InWork(f) /\ job[Scan].at # "idle"
    BY <1>2, <1>3, ScanJob
       DEF TypeOK, Scanned, JobStep, ReadPhoto, WriteCopy, FindDevices, SetImages, Raised
<1>6. CASE ReadPhoto(j)
    <2>1. ~(folder[f] = NoPhoto \/ f \in held)
        BY <1>2, <1>5 DEF Scanned, InWork
    <2>2. job'[Scan] = [job[Scan] EXCEPT !.at = "write", !.copy = folder[f]]
        BY <1>3, <1>6, <2>1, ScanJob DEF ReadPhoto, TypeOK
    <2>3. job'[Scan].at = "write" /\ job'[Scan].photo = f /\ job'[Scan].copy = folder[f]
        BY <1>2, <2>2 DEF Job
    <2>4. serve' = serve /\ image' = image
        BY <1>6 DEF ReadPhoto, deviceVars
    <2>5. QED
        BY <1>1, <1>2, <1>5, <2>3, <2>4, ScanGoesOn
<1>7. CASE WriteCopy(j)
    <2>1. job'[Scan] = [job[Scan] EXCEPT !.at = "find", !.copy = NoPhoto]
        BY <1>3, <1>7, ScanJob DEF WriteCopy, TypeOK
    <2>2. job'[Scan].at = "find" /\ job'[Scan].photo = f
        BY <1>2, <2>1 DEF Job
    <2>3. /\ serve'[f] = folder[f] /\ image' = image
          /\ \A g \in Photos : g # f => serve'[g] = serve[g]
        BY <1>3, <1>5, <1>7 DEF WriteCopy, InWork, TypeOK, deviceVars
    <2>4. QED
        BY <1>1, <1>2, <1>5, <2>2, <2>3, ScanGoesOn
<1>8. CASE FindDevices(j)
    <2>1. serve' = serve /\ image' = image /\ job[Scan].at = "find"
        BY <1>3, <1>8 DEF FindDevices, deviceVars
    <2>2. CASE Outdated(f) = {}
        <3>1. job'[Scan].at = "idle"
            BY <1>3, <1>8, <2>2, ScanJob, JobTypes DEF FindDevices, Finish, TypeOK
        <3>2. \A d \in Devices : image'[d] = IF d \in OfModel(f) THEN f ELSE image[d]
            BY <2>1, <2>2 DEF Outdated
        <3>3. QED
            BY <1>1, <1>2, <1>5, <2>1, <3>1, <3>2, PhotoDone
    <2>3. CASE Outdated(f) # {}
        <3>1. job'[Scan] = [job[Scan] EXCEPT !.at = "set", !.found = Outdated(f)]
            BY <1>3, <1>8, <2>3, ScanJob DEF FindDevices, TypeOK
        <3>2. job'[Scan].at = "set" /\ job'[Scan].photo = f /\ job'[Scan].found = Outdated(f)
            BY <1>2, <3>1 DEF Job
        <3>3. serve'[f] = folder[f]
            BY <1>5, <2>1 DEF InWork
        <3>4. QED
            BY <1>1, <1>2, <1>5, <2>1, <3>2, <3>3, ScanGoesOn
    <2>4. QED
        BY <2>2, <2>3
<1>9. CASE SetImages(j)
    <2>1. job[Scan].at = "set" /\ serve' = serve /\ job[Scan].found = Outdated(f)
        BY <1>3, <1>5, <1>9 DEF SetImages, InWork
    <2>2. job'[Scan].at = "idle"
        BY <1>3, <1>9, ScanJob, JobTypes DEF SetImages, Finish, TypeOK
    <2>3. \A d \in Devices : image'[d] = IF d \in OfModel(f) THEN f ELSE image[d]
        BY <1>3, <1>9, <2>1 DEF SetImages, Outdated
    <2>4. QED
        BY <1>1, <1>2, <1>5, <2>1, <2>2, <2>3, PhotoDone
<1>10. QED
    BY <1>4, <1>6, <1>7, <1>8, <1>9 DEF JobStep

LEMMA ScanStep ==
    ASSUME TypeOK, Alone, ScanInv, [Next]_vars
    PROVE  ScanInv'
<1>1. CASE UNCHANGED vars
    BY <1>1 DEF vars, folderVars, deviceVars, ScanInv, Scanned, Done, Applied, InWork,
                OfModel, Outdated, UpTo
<1>2. CASE ~still' \/ server' # "scanning"
    BY <1>2 DEF ScanInv
<1>3. CASE StartScan
    <2>1. /\ todo' = {f \in Photos : folder[f] # NoPhoto} /\ folder' = folder
          /\ held' = held /\ job' = job /\ job[Scan].at = "idle" /\ still' = (held = {})
        BY <1>3 DEF StartScan, folderVars, Alone
    <2>2. Done' = {}
        BY <2>1 DEF Done
    <2>3. QED
        BY <2>1, <2>2 DEF ScanInv, Scanned
<1>4. CASE ScanNext
    <2> SUFFICES ASSUME still, server = "scanning" PROVE Scanned'
        BY <1>4 DEF ScanNext, ScanInv
    <2>1. PICK f \in todo : /\ \A g \in todo : UpTo(f, g)
                            /\ Begin(Scan, f) /\ todo' = todo \ {f}
        BY <1>4 DEF ScanNext
    <2>2. /\ UNCHANGED <<folder, held, serve, model, image>> /\ job[Scan].at = "idle"
          /\ f \in Photos /\ Scanned
        BY <1>4 DEF ScanNext, folderVars, deviceVars, TypeOK, ScanInv
    <2>3. job'[Scan] = [job[Scan] EXCEPT !.at = "read", !.photo = f]
        BY <2>1, ScanJob DEF Begin, TypeOK
    <2>4. job'[Scan].at = "read" /\ job'[Scan].photo = f
        BY <2>3, ScanJob DEF TypeOK, Job
    <2>5. Done' = Done /\ f \notin Done
        BY <2>1, <2>2, <2>4 DEF Done
    <2>6. \A g \in Done : Applied(g)'
        BY <2>2, <2>5 DEF Scanned, Applied, OfModel, UpTo
    <2>7. InWork(f)'
        BY <2>1, <2>2, <2>4, <2>5 DEF Scanned, InWork, UpTo
    <2>8. QED
        BY <2>1, <2>2, <2>4, <2>5, <2>6, <2>7 DEF Scanned, UpTo
<1>5. ASSUME NEW f \in Photos, HandleEvent(f) \/ \E t \in Timers : Fire(f, t)
      PROVE  ScanInv'
    BY <1>5 DEF HandleEvent, Fire, TypeOK, ScanInv
<1>6. ASSUME NEW j \in Jobs, JobStep(j) PROVE ScanInv'
    BY <1>6, ScanJobStep
<1>7. QED
    BY <1>1, <1>2, <1>3, <1>4, <1>5, <1>6 DEF Next, SavePhoto, MovePhoto, HoldPhoto,
       ImportDevice, StartWatcher, Exit, Stopped

\* When nobody interferes with the scan, every photo is served as it is and
\* every device shows the last photo of its model, for any number of photos
\* that share a model.
THEOREM ScanIsComplete == Spec => ScanComplete
<1>1. Init => Alone /\ ScanInv
    BY JobTypes, ScanJob DEF Init, Alone, ScanInv
<1>2. TypeOK /\ Alone /\ ScanInv /\ [Next]_vars =>
        [server = "scanning" /\ server' = "up" /\ still =>
            \A f \in Photos : folder[f] # NoPhoto =>
                /\ serve[f] = folder[f]
                /\ LastOfModel(f) => \A d \in OfModel(f) : image[d] = f]_vars
    <2> SUFFICES ASSUME TypeOK, ScanInv, Next, server = "scanning", server' = "up",
                        still, NEW f \in Photos, folder[f] # NoPhoto
                 PROVE  /\ serve[f] = folder[f]
                        /\ LastOfModel(f) => \A d \in OfModel(f) : image[d] = f
        BY DEF vars
    <2>1. StartWatcher
        BY DEF Next, SavePhoto, MovePhoto, HoldPhoto, ImportDevice, StartScan, ScanNext,
           Exit, Stopped, HandleEvent, Fire, JobStep, ReadPhoto, WriteCopy, FindDevices,
           SetImages, Raised
    <2>2. Scanned /\ f \in Done
        BY <2>1 DEF ScanInv, StartWatcher, Done
    <2>3. Applied(f) /\ \A g \in Done : g \in Photos /\ folder[g] # NoPhoto
        BY <2>2 DEF Scanned, Done
    <2>4. QED
        BY <2>3 DEF Applied, LastOfModel
<1>3. QED
    BY <1>1, <1>2, AloneStep, ScanStep, TypeCorrect, PTL DEF Spec, ScanComplete

-----------------------------------------------------------------------------
(***************************************************************************)
(* A save the watcher was told of.  Its event becomes a timer, which later *)
(* events replace, and the timer a job; threads that are busy with an      *)
(* older state of the photo do not count.                                  *)
(***************************************************************************)
Reading(f) == \E j \in Jobs : job[j].at = "read" /\ job[j].photo = f

\* The safety half of SavedIsRead.
SaveStands == \A f \in unread : f \in events \cup waiting \/ Reading(f)

\* A step that takes no event and no timer away.
LEMMA SaveStays ==
    ASSUME SaveStands, unread' \subseteq unread, UNCHANGED watchVars,
           \A f \in unread' : \A j \in Jobs :
               job[j].at = "read" /\ job[j].photo = f =>
                   job'[j].at = "read" /\ job'[j].photo = f
    PROVE  SaveStands'
BY DEF SaveStands, Reading, watchVars

LEMMA SaveStep ==
    ASSUME TypeOK, SaveStands, [Next]_vars
    PROVE  SaveStands'
<1> USE DEF TypeOK
<1>1. ASSUME NEW f \in Photos, NEW v \in Versions, SavePhoto(f, v) PROVE SaveStands'
    BY <1>1 DEF SavePhoto, SaveStands, Reading
<1>2. CASE \/ \E f \in Photos, v \in Versions \cup {NoPhoto} : MovePhoto(f, v)
           \/ \E f \in Photos : HoldPhoto(f)
           \/ \E d \in Devices, m \in Models : ImportDevice(d, m)
           \/ StartScan \/ StartWatcher \/ UNCHANGED vars
    <2>1. UNCHANGED <<unread, watchVars, job>>
        BY <1>2 DEF MovePhoto, HoldPhoto, ImportDevice, StartScan, StartWatcher, vars
    <2>2. QED
        BY <2>1, SaveStays
<1>3. ASSUME NEW f \in Photos, HandleEvent(f) PROVE SaveStands'
    BY <1>3 DEF HandleEvent, SaveStands, Reading
<1>4. ASSUME NEW j \in Jobs, NEW f \in Photos, Begin(j, f), job[j].at = "idle"
      PROVE  Reading(f)' /\ \A g \in Photos : Reading(g) => Reading(g)'
    <2>1. job' = [job EXCEPT ![j] = [job[j] EXCEPT !.at = "read", !.photo = f]]
        BY <1>4 DEF Begin
    <2>2. job'[j].at = "read" /\ job'[j].photo = f
        BY <2>1 DEF Job
    <2>3. \A i \in Jobs \ {j} : job'[i] = job[i]
        BY <2>1
    <2>4. QED
        BY <1>4, <2>2, <2>3 DEF Reading
<1>5. CASE ScanNext
    <2>1. PICK f \in todo : Begin(Scan, f)
        BY <1>5 DEF ScanNext
    <2>2. \A g \in Photos : Reading(g) => Reading(g)'
        BY <1>4, <1>5, <2>1, ScanJob DEF ScanNext
    <2>3. QED
        BY <1>5, <2>2 DEF ScanNext, watchVars, SaveStands
<1>6. ASSUME NEW f \in Photos, NEW t \in Timers, Fire(f, t) PROVE SaveStands'
    <2>1. Reading(f)' /\ \A g \in Photos : Reading(g) => Reading(g)'
        BY <1>4, <1>6, ScanJob DEF Fire
    <2>2. QED
        BY <1>6, <2>1 DEF Fire, SaveStands
<1>7. CASE Exit
    BY <1>7 DEF Exit, Stopped, SaveStands
<1>8. ASSUME NEW j \in Jobs, JobStep(j) PROVE SaveStands'
    <2>1. CASE Raised(j) /\ j = Scan
        BY <2>1 DEF Raised, Stopped, SaveStands
    <2>2. CASE ReadPhoto(j) \/ WriteCopy(j) \/ FindDevices(j) \/ SetImages(j)
               \/ (Raised(j) /\ j # Scan)
        <3>1. \A i \in Jobs \ {j} : job'[i] = job[i]
            BY <2>2 DEF ReadPhoto, WriteCopy, FindDevices, SetImages, Raised, To, Finish
        <3>2. unread' \subseteq unread /\ UNCHANGED watchVars
            BY <2>2 DEF ReadPhoto, WriteCopy, FindDevices, SetImages, Raised
        <3>3. job[j].at = "read" => job[j].photo \notin unread'
            BY <2>2 DEF ReadPhoto, WriteCopy, FindDevices, SetImages, Raised
        <3>4. QED
            BY <3>1, <3>2, <3>3, SaveStays
    <2>3. QED
        BY <1>8, <2>1, <2>2 DEF JobStep
<1>9. QED
    BY <1>1, <1>2, <1>3, <1>5, <1>6, <1>7, <1>8 DEF Next

\* A save the watcher was told of is not dropped, with any number of photos and
\* timers: until an attempt to read the photo that begins after it, there is an
\* event, a timer or a thread about to read it.
THEOREM SaveNotDropped == Spec => []SaveStands
<1>1. Init => SaveStands
    BY DEF Init, SaveStands
<1>2. QED
    BY <1>1, SaveStep, TypeCorrect, PTL DEF Spec
=============================================================================
