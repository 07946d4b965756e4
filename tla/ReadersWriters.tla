---------------------------- MODULE ReadersWriters ----------------------------
(***************************************************************************)
(* What RWLock::Lock promises to the server's threads: any number of       *)
(* Reader objects may be alive at once, a Writer object is alive alone     *)
(* (src/common/rwlock.hh, "multiple reader allowed" / "only one writer     *)
(* allowed").  How a thread waits for its turn is left out on purpose.     *)
(***************************************************************************)
CONSTANT Threads

VARIABLES readers,   \* threads that own a live Reader object
          writers    \* threads that own a live Writer object

rwVars == <<readers, writers>>

RWInit == readers = {} /\ writers = {}

BeginRead(t)  == /\ writers = {} /\ t \notin readers
                 /\ readers' = readers \cup {t}
                 /\ UNCHANGED writers

EndRead(t)    == /\ t \in readers
                 /\ readers' = readers \ {t}
                 /\ UNCHANGED writers

BeginWrite(t) == /\ writers = {} /\ readers = {}
                 /\ writers' = {t}
                 /\ UNCHANGED readers

EndWrite(t)   == /\ t \in writers
                 /\ writers' = writers \ {t}
                 /\ UNCHANGED readers

RWNext == \E t \in Threads :
             BeginRead(t) \/ EndRead(t) \/ BeginWrite(t) \/ EndWrite(t)

RWSpec == RWInit /\ [][RWNext]_rwVars
=============================================================================
