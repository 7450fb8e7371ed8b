------------------------------- MODULE Boot -------------------------------
(***************************************************************************)
(* main() brings the board up: it reads the MAC address from the EEPROM,   *)
(* starts the network through lwipInit, which blocks until lwip_thread has *)
(* set the interface up, starts the motor control with its measurement     *)
(* task and the communication thread, and exits.  Module Eeprom has the    *)
(* driver's steps, module Reception those of the network threads; here     *)
(* they run under main's priority, above all of them.                      *)
(***************************************************************************)
EXTENDS Eeprom, Reception

VARIABLES
    mpc,        \* where main is; "suspended" on lwip_trp
    hwaddr      \* the interface's address, given to the MAC

bootVars == <<mpc, hwaddr>>
vars == <<eeVars, recvVars, bootVars>>
sysVars == <<cs, got, addr, offset, miso, sent, nbits, nbytes, b, _macaddress,
             recvVars, bootVars>>

MainReady == mpc \notin {"suspended", "exit", "halted"}

(* chThdGetPriorityX() - 1.  Mutant: lwip_thread above its creator.        *)
AboveMainM == TRUE
AboveMain == FALSE

MayBoot == lpc \in BootSteps /\ mpc # "halted" /\ (AboveMain \/ ~MainReady)
MayRun == lpc \in LoopSteps /\ mpc # "halted" /\ ~MainReady
MainRuns == ~(AboveMain /\ lpc \in BootSteps)

Init ==
    /\ EepromInit /\ ReceptionInit
    /\ mpc = "eeprom" /\ hwaddr = <<>>

-----------------------------------------------------------------------------
(* Mc94AA46AE58GetID; a wrong mark fails its assertion.                    *)
GetID ==
    /\ mpc = "eeprom"
    /\ Mc94AA46AE58GetID
    /\ mpc' = CASE read_byte /\ MarkIsWrong -> "halted"
                [] Deselect -> "create"
                [] OTHER -> "eeprom"
    /\ UNCHANGED <<recvVars, hwaddr>>

(* lwipInit, first half: the thread is created below its creator.          *)
Create ==
    /\ mpc = "create"
    /\ mpc' = "suspend"
    /\ CreateLwip
    /\ UNCHANGED <<eeVars, hwaddr>>

(* Mutant of Suspend: lwipInit does not wait.                              *)
SuspendM ==
    /\ mpc = "suspend" /\ MainRuns
    /\ mpc' = "motor"
    /\ UNCHANGED <<eeVars, recvVars, hwaddr>>

Suspend ==
    /\ mpc = "suspend" /\ MainRuns
    /\ mpc' = "suspended"
    /\ UNCHANGED <<eeVars, recvVars, hwaddr>>

(* MotorControlInit creates the measurement task, which sleeps first.      *)
StartMotor ==
    /\ mpc = "motor" /\ MainRuns
    /\ mpc' = "comms"
    /\ CreateMc
    /\ UNCHANGED <<eeVars, hwaddr>>

StartComms ==
    /\ mpc = "comms"
    /\ mpc' = "exit"
    /\ UNCHANGED <<eeVars, recvVars, hwaddr>>

Main == GetID \/ Create \/ Suspend \/ StartMotor \/ StartComms

(* What lwip_thread's steps do outside of Reception: chThdResume wakes     *)
(* main only if it is already suspended.                                   *)
NetworkStarts ==
    /\ MayBoot
    /\ LwipBoot
    /\ hwaddr' = IF CopyHwaddr THEN _macaddress ELSE hwaddr
    /\ mpc' = IF Resume /\ mpc = "suspended" THEN "motor" ELSE mpc
    /\ UNCHANGED eeVars

Loop == MayRun /\ LwipLoop /\ UNCHANGED <<eeVars, bootVars>>

NotHalted == mpc # "halted" /\ UNCHANGED <<eeVars, bootVars>>
Interrupts == Hardware /\ NotHalted
Serve == TcpipServe /\ ~MainReady /\ NotHalted
Done == TcpipDone /\ NotHalted
Wake == McWakes /\ NotHalted
Measure == (McSleeps \/ McYields) /\ ~MainReady /\ NotHalted

(* osalSysHalt stops the machine.                                          *)
Halted == mpc = "halted" /\ UNCHANGED vars

Next == Main \/ NetworkStarts \/ Loop \/ Interrupts \/ Serve \/ Done \/ Wake
        \/ Measure \/ Halted

Spec == Init /\ [][Next]_vars

(* Every thread that may run does; the timer ticks, a wait for a transmit  *)
(* descriptor ends and the measurement task reaches its yield.  Above      *)
(* these threads are the communication thread and the interrupts, which    *)
(* sleep or return.                                                        *)
Fairness ==
    /\ WF_sysVars(Main) /\ WF_sysVars(NetworkStarts) /\ WF_sysVars(Loop)
    /\ WF_sysVars(Serve) /\ WF_sysVars(Done)
    /\ WF_sysVars(TimerTick /\ NotHalted)
    /\ WF_sysVars(McYields /\ ~MainReady /\ NotHalted)

FairSpec == Spec /\ Fairness

-----------------------------------------------------------------------------
(* When main goes on to start the motor control and the communication      *)
(* thread, the interface is up and has the address the chip holds, bit for *)
(* bit.                                                                    *)
StackReady ==
    mpc \in {"motor", "comms", "exit"} =>
        /\ Registered
        /\ hwaddr = [i \in 1..MacLen |-> mem[i]]

(* main never waits for lwip_thread in vain: unless the chip is missing or *)
(* not programmed, the start-up ends.                                      *)
BootCompletes == mem[0] = Epi ~> mpc = "exit"

(* A cable that stays as it is ends up in the interface's link flag,       *)
(* whatever stale or lost messages came before: packets alone do not fill  *)
(* the mailbox, so a change that could not be posted finds room in the end *)
(* (lwipthread.c:363-377).  The exception is a loop over low_level_input   *)
(* that never ends, with frames coming as fast as it takes them.           *)
LinkFollows ==
    \A up \in BOOLEAN :
        <>[](mpc = "exit" /\ phy = up) =>
            \/ <>[](link_up = up)
            \/ <>[](lpc \in {"frame", "read"})
=============================================================================
