--------------------------- MODULE ClientResults ----------------------------
(***************************************************************************)
(* helper/device-client-factory.cc, WriteResults(): the rows and the       *)
(* summary that are computed from the ledger of each client when the       *)
(* simulation is over. A mean is kept as its sum; the sample deviation and *)
(* the text layout are left out.                                           *)
(***************************************************************************)
EXTENDS DeviceExchange

CONSTANT MinRttStart   \* initial value of min_rtt_ns, "sufficiently high"

ASSUME ClientResultsAssumption == MinRttStart \in Int

ReplyArrivedAlways(c, j) == TRUE
ReplyArrived(c, j) == replyTimestamps[c][j] # Never

(* One row of the csv file.                                                *)
Row(c, j) ==
    LET there == replyTimestamps[c][j] - sendRequestTimestamps[c][j]
        back  == receiveReplyTimestamps[c][j] - replyTimestamps[c][j]
    IN IF ReplyArrived(c, j)
       THEN [there |-> there, back |-> back, rtt |-> there + back]
       ELSE [there |-> -1, back |-> -1, rtt |-> -1]

(* The statistics start at Nothing, and each row whose reply arrived is    *)
(* added to them.                                                          *)
Nothing == [total |-> 0, there |-> 0, back |-> 0, minRtt |-> MinRttStart, maxRtt |-> -1]

Lower(a, b)  == IF b < a THEN b ELSE a
Higher(a, b) == IF b > a THEN b ELSE a

Add(s, row) ==
    [total  |-> s.total + 1,
     there  |-> s.there + row.there,
     back   |-> s.back + row.back,
     minRtt |-> Lower(s.minRtt, row.rtt),
     maxRtt |-> Higher(s.maxRtt, row.rtt)]

Statistics(c) ==
    LET sent == Len(sendRequestTimestamps[c])
        upTo[j \in 0 .. sent] ==
            IF j = 0 THEN Nothing
            ELSE IF ReplyArrived(c, j) THEN Add(upTo[j - 1], Row(c, j))
            ELSE upTo[j - 1]
    IN upTo[sent]

NoSummary == [total |-> 0, there |-> -1, back |-> -1, minRtt |-> -1, maxRtt |-> -1]

(* The line of the txt file.                                               *)
Summary(c) == IF Statistics(c).total = 0 THEN NoSummary ELSE Statistics(c)

(* Whenever the run ends, the results agree with what happened: a request  *)
(* is reported as answered iff its reply was received, no latency is       *)
(* negative, the round trip is the time from request to receipt, and the   *)
(* mean lies between the minimum and the maximum.                          *)
ResultsConsistent ==
    \A c \in Clients :
        LET s == Summary(c) IN
        /\ s.total = Cardinality({j \in Slots(c) : Answered(c, j)})
        /\ \A j \in Slots(c) : Answered(c, j) =>
             /\ Row(c, j).there >= 0
             /\ Row(c, j).back >= 0
             /\ Row(c, j).rtt = receiveReplyTimestamps[c][j] - sendRequestTimestamps[c][j]
        /\ s.total > 0 =>
             /\ s.minRtt * s.total <= s.there + s.back
             /\ s.there + s.back <= s.maxRtt * s.total

=============================================================================
