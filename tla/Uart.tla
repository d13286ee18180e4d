-------------------------------- MODULE Uart --------------------------------
(***************************************************************************)
(* The serial port (trs_uart.c).  A read from the host fills the buffer,   *)
(* and each buffered byte is announced by an event of its own.  s.uart has *)
(*                                                                         *)
(*   init  "no", "yes" or "failed"      (initialized 0, 1, -1)             *)
(*   rcvd  TRS_UART_RCVD: a byte can be read                               *)
(*   left  bufleft: buffered bytes the guest has not read                  *)
(*                                                                         *)
(* What is sent never waits: trs_uart_data_out returns as soon as the host *)
(* has taken the byte, so TRS_UART_SENT and the interrupt it latches stay  *)
(* as trs_uart_init sets them and are left out, as the line parameters are.*)
(***************************************************************************)
EXTENDS Events

CONSTANTS Reads,     \* how many bytes one read from the host can bring
          Opening    \* whether opening the host's device succeeds

UartState == [init : {"no", "yes", "failed"}, rcvd : BOOLEAN, left : Int]
UartStart == [init |-> "no", rcvd |-> FALSE, left |-> 0]

\* trs_uart_init; opening the device succeeds or fails.  What a port that does
\* not open still holds is not looked at before the next trs_uart_init.
UartInit(s, opens) ==
  IF opens
  THEN [s EXCEPT !.uart = [UartStart EXCEPT !.init = "yes"]]
  ELSE [s EXCEPT !.uart = [UartStart EXCEPT !.init = "failed"]]

\* The first access to any of the ports opens the device.
Opened(s, opens) == IF s.uart.init = "no" THEN UartInit(s, opens) ELSE s

\* What the host may answer: whether the device opens, how many bytes wait.
Opens(s) == IF s.uart.init = "no" THEN Opening ELSE {TRUE}
Waiting(s) == IF s.uart.init # "failed" /\ s.uart.left = 0 THEN Reads ELSE {0}

\* trs_uart_check_avail: an empty buffer is filled with the n bytes that wait.
CheckAvail(s, n) ==
  IF s.uart.init = "yes" /\ s.uart.left = 0 /\ n > 0
  THEN Schedule([s EXCEPT !.uart.left = n], "avail", "none", FALSE)
  ELSE s

UartStatusIn(s, opens, n) ==
  LET o == Opened(s, opens) IN
  IF o.uart.init = "failed" THEN o ELSE CheckAvail(o, n)

\* Mutant: the rest of the buffer is not announced.
UartDataInOnce(s, opens, n) ==
  LET c == UartStatusIn(s, opens, n) IN
  IF c.uart.init = "failed" \/ ~c.uart.rcvd THEN c
  ELSE RcvInterrupt([c EXCEPT !.uart.rcvd = FALSE, !.uart.left = @ - 1], FALSE)

\* Without a check that a byte is left: an announced byte is taken to be there.
\* Below zero the count is not looked at again, and -1 stands for it all.
UartDataIn(s, opens, n) ==
  LET c == UartStatusIn(s, opens, n)
      left == IF c.uart.left > 0 THEN c.uart.left - 1 ELSE -1
      taken == RcvInterrupt([c EXCEPT !.uart.rcvd = FALSE, !.uart.left = left], FALSE)
  IN  IF c.uart.init = "failed" \/ ~c.uart.rcvd THEN c
      ELSE IF left # 0 THEN Schedule(taken, "avail", "none", FALSE)
      ELSE taken
=============================================================================
