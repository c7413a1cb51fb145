------------------------------ MODULE PingTask ------------------------------
(***************************************************************************)
(* What a ping task makes of one exchange with a router (task/ping.go,     *)
(* task/executor.go): pure operators, from what conn.Execute returns to    *)
(* the Data of the result.                                                 *)
(*                                                                         *)
(* Of the router's text only what the parsers look for is kept: whether    *)
(* there is a summary line, the percentage it shows, and whether lines     *)
(* "Request time out" come before it.  The formats are those of the        *)
(* samples and tests: "Success rate is 80 percent" (IOS), "20.00% packet   *)
(* loss" (NX-OS), "20% packet loss" (VRP), "20.0% packet loss" (Comware).  *)
(* A parser that asks whether the line contains "0 percent" or "0% packet  *)
(* loss" is answered yes by every percentage whose last digit is 0.        *)
(***************************************************************************)
EXTENDS Integers

(* Platforms for which Meta offers the task (Discover finds no other, and  *)
(* BuildCommand would refuse it).                                          *)
Platform == {"cisco_iosxe", "cisco_iosxr", "cisco_nxos", "huawei_vrp", "h3c_comware"}

(* What a task may leave in Data["status"]. *)
Status ==
  {"CheckFinished", "CheckTimeout", "ParseResultFailed", "ConnectionError", "ExecutionError"}

(* result.Data, as far as the Zabbix handler reads it. *)
ReportType ==
  [hasStatus : BOOLEAN, status : Status, hasLoss : BOOLEAN, packetLoss : Int]

(* One exchange: the error Execute returned, or the output, with the loss  *)
(* the router measured.  A request that timed out is a lost one.           *)
ExchangeType ==
  {x \in [platform : Platform,
          error    : {"none", "deadline", "connection", "other"},
          summary  : BOOLEAN,
          timeouts : BOOLEAN,
          loss     : 0..100] : x.timeouts => x.loss > 0}

Finished(l) ==
  [hasStatus |-> TRUE, status |-> "CheckFinished", hasLoss |-> TRUE, packetLoss |-> l]
FinishedWithoutLoss ==
  [hasStatus |-> TRUE, status |-> "CheckFinished", hasLoss |-> FALSE, packetLoss |-> 0]
Unfinished(s) ==
  [hasStatus |-> TRUE, status |-> s, hasLoss |-> FALSE, packetLoss |-> 0]

EndsInZero(n) == n % 10 = 0

-----------------------------------------------------------------------------
(* Fault: "0 percent" is looked for before "100 percent", which has it. *)
parseCiscoOutputZeroFirst(x) ==
  LET rate == 100 - x.loss
  IN IF ~x.summary THEN Unfinished("ParseResultFailed")
     ELSE IF EndsInZero(rate) THEN Finished(100)
     ELSE Finished(100 - rate)

(* IOS-XE, IOS-XR: "100 percent", then "0 percent", then the number. *)
parseCiscoOutput(x) ==
  LET rate == 100 - x.loss
  IN IF ~x.summary THEN Unfinished("ParseResultFailed")
     ELSE IF rate = 100 THEN Finished(0)
     ELSE IF EndsInZero(rate) THEN Finished(100)
     ELSE Finished(100 - rate)

(* NX-OS: "0.00% packet loss", which "100.00% packet loss" contains, so    *)
(* that the next test never succeeds; what is left looks for a word with   *)
(* both "packet" and "%" in it, and there is none.                         *)
parseCiscoNxosOutput(x) ==
  IF ~x.summary THEN Unfinished("ParseResultFailed")
  ELSE IF EndsInZero(x.loss) THEN Finished(0)
  ELSE FinishedWithoutLoss

(* Fault: "0% packet loss" is looked for before "100% packet loss". *)
parseHuaweiOutputZeroFirst(x) ==
  IF x.timeouts THEN Finished(100)
  ELSE IF ~x.summary THEN Unfinished("ParseResultFailed")
  ELSE IF EndsInZero(x.loss) THEN Finished(0)
  ELSE Finished(x.loss)

(* VRP: the first line that times out decides; else "100% packet loss",    *)
(* then "0% packet loss", then the number.                                 *)
parseHuaweiOutput(x) ==
  IF x.timeouts THEN Finished(100)
  ELSE IF ~x.summary THEN Unfinished("ParseResultFailed")
  ELSE IF x.loss = 100 THEN Finished(100)
  ELSE IF EndsInZero(x.loss) THEN Finished(0)
  ELSE Finished(x.loss)

(* Comware: the number of the summary, cut to a percentage. *)
parseH3COutput(x) ==
  IF ~x.summary THEN Unfinished("ParseResultFailed") ELSE Finished(x.loss)

ParseOutput(x) ==
  CASE x.platform \in {"cisco_iosxe", "cisco_iosxr"} -> parseCiscoOutput(x)
    [] x.platform = "cisco_nxos"                     -> parseCiscoNxosOutput(x)
    [] x.platform = "huawei_vrp"                     -> parseHuaweiOutput(x)
    [] x.platform = "h3c_comware"                    -> parseH3COutput(x)

(* The executor's core, once: the scheduler asks for no retries.  The      *)
(* parameters it passes are valid, and a driver supports the platform it   *)
(* was made for.  "deadline": the context of WithSmartTimeout has expired; *)
(* "connection": the text of the error speaks of a connection or of a      *)
(* timeout.                                                                *)
Execute(x) ==
  CASE x.error = "none"       -> ParseOutput(x)
    [] x.error = "deadline"   -> Unfinished("CheckTimeout")
    [] x.error = "connection" -> Unfinished("ConnectionError")
    [] x.error = "other"      -> Unfinished("ExecutionError")

=============================================================================
