------------------------------ MODULE MCKernel ------------------------------
(***************************************************************************)
(* Two parts of the kernel in one run: the events, the mutex and the signal *)
(* on top of the scheduler, and the progress of the UART driver, whose      *)
(* model has threads of its own.  They share no state: a behaviour is one   *)
(* of the part that `block` names, and the other stays where it begins.     *)
(***************************************************************************)
EXTENDS MCSync, Uart

VARIABLE block

kernelVars == <<block, histVars, uartVars>>

(* The first of the initial states of the driver. *)
UartStill == UartInit /\ isRunning /\ current = CHOOSE t \in Callers : TRUE

KernelInit ==
    /\ block \in {"sync", "uart"}
    /\ HistInit
    /\ IF block = "uart" THEN UartInit ELSE UartStill

KernelNext ==
    \/ block = "sync" /\ HistNext /\ UNCHANGED <<block, uartVars>>
    \/ block = "uart" /\ UartNext /\ UNCHANGED <<block, histVars>>

(* UartFairness, when it is the driver that runs. *)
KernelFairness ==
    /\ \A t \in Callers : WF_uartVars(block = "uart" /\ SendStep(t))
    /\ SF_uartVars(block = "uart" /\ UartIrq)
    /\ WF_uartVars(block = "uart" /\ Handler)
    /\ WF_uartVars(block = "uart" /\ Flush)
    /\ WF_uartVars(block = "uart" /\ LineOut)

KernelSpec == KernelInit /\ [][KernelNext]_kernelVars /\ KernelFairness

=============================================================================
