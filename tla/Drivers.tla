------------------------------ MODULE Drivers -------------------------------
(***************************************************************************)
(* The drivers that are used while they are loaded and unloaded: the RAM     *)
(* disks, kobject-event.c and poll.c on the loading of ModuleLoad.  One of    *)
(* its modules is chosen, and the variables of the others do not move.      *)
(***************************************************************************)
EXTENDS BlockIO, KobjEvent, PollDev

driverVars == <<lab, loadVars, ioVars, kobjVars, pollVars>>

DriversInit == LoadInit /\ IoInit /\ KobjInit /\ PollInit

DriversNext ==
    \/ LoadNext /\ UNCHANGED <<ioVars, kobjVars, pollVars>>
    \/ IoNext /\ UNCHANGED <<kobjVars, pollVars>>
    \/ KobjNext /\ UNCHANGED <<ioVars, pollVars>>
    \/ PollNext /\ UNCHANGED <<ioVars, kobjVars>>

DriversSpec ==
    /\ lab \in LoadModules /\ DriversInit
    /\ [][DriversNext]_driverVars
-----------------------------------------------------------------------------
(* The properties, beside Served, AtomicRequests, CommandObeyed and IoctlWakes.*)

\* A failed init function, and an exit function, leave nothing behind but what the modules
\* listed there leave, and a module that got all it asked for misuses nothing (but two).
LoadReleases == FailedLoadReleases /\ UnloadReleases /\ MisuseNeedsFailure
\* A callback finds what it uses, and pd outlives those who poll it.
LiveObjects == CallbackSafe /\ PdLive
\* ramdisk-lab: no segment is copied outside a buffer, and a request ends with its own status;
RequestSound == CopySafe /\ EndsRight
\* a read returns nothing older than the last write before it, and a write stays until it
\* is replaced.
DiskCoherent == ReadsFresh /\ WriteStays
=============================================================================
