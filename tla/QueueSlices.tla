---------------------------- MODULE QueueSlices ----------------------------
(***************************************************************************)
(* How the applications divide RX queues between polling lcores.           *)
(*                                                                         *)
(* In each application two pieces of code compute the division of the      *)
(* queues independently: the polling loop computes the slice [first, last) *)
(* it polls, and main() computes, queue by queue, which lcore's mbuf pool  *)
(* the NIC fills that queue from.  Both are written down here as they are  *)
(* in the source; q is the number of RX queues, n the number of polling    *)
(* lcores, k an lcore position in 0 .. n-1 and x a queue in 0 .. q-1.      *)
(***************************************************************************)
EXTENDS Integers

(***************************************************************************)
(* mica: every lcore gets q / n queues, and the first q % n lcores get one *)
(* more.  MicaFirstBug forgets the queues that the lcores before k got     *)
(* extra (see PollLoop on definitions whose name ends in Bug).             *)
(***************************************************************************)
MicaFirst(q, n, k) ==
  k * (q \div n) + (IF k < q % n THEN k ELSE q % n)

MicaLast(q, n, k) ==
  MicaFirst(q, n, k) + (q \div n) + (IF k < q % n THEN 1 ELSE 0)

\* The lcore whose mbuf pool main() gives to RX queue x; the faulty form
\* forgets the extra queues of the first lcores.
MicaOwnerBug(q, n, x) == x \div (q \div n)

MicaOwner(q, n, x) ==
  LET per      == q \div n
      extra    == q % n
      boundary == extra * (per + 1)
  IN  IF x < boundary THEN x \div (per + 1)
                      ELSE extra + (x - boundary) \div per

(***************************************************************************)
(* nf-chain: lcore k gets [q*k/n, q*(k+1)/n).                              *)
(***************************************************************************)
NfFirst(q, n, k) == (q * k) \div n

NfLast(q, n, k) == (q * (k + 1)) \div n

\* get_lcore_for_queue(): the first lcore, in RTE_LCORE_FOREACH order, whose
\* slice holds x.
NfOwner(q, n, x) ==
  CHOOSE k \in 0 .. n-1 :
    /\ x >= NfFirst(q, n, k) /\ x < NfLast(q, n, k)
    /\ \A j \in 0 .. k-1 : ~ (x >= NfFirst(q, n, j) /\ x < NfLast(q, n, j))

=============================================================================
