----------------------- MODULE MCCertificateStructure -----------------------
(* Two main sections; the first has two sections, the first of these two
   questions and a sub-section with a third. *)
EXTENDS CertificateStructure

CONSTANTS m1, m2, s1, s2, b1, q1, q2, q3

Row(m, s, b, r) == [main |-> m, section |-> s, sub |-> b, rank |-> r]

SmallTree ==
    [i \in {m1, m2, s1, s2, b1, q1, q2, q3} |->
        CASE i = m1 -> Row(Nowhere, Nowhere, Nowhere, 1)
          [] i = m2 -> Row(Nowhere, Nowhere, Nowhere, 2)
          [] i = s1 -> Row(m1, Nowhere, Nowhere, 1)
          [] i = s2 -> Row(m1, Nowhere, Nowhere, 2)
          [] i = b1 -> Row(m1, s1, Nowhere, 1)
          [] i = q1 -> Row(m1, s1, Nowhere, 1)
          [] i = q2 -> Row(m1, s1, Nowhere, 2)
          [] i = q3 -> Row(m1, s1, b1, 1)]
=============================================================================
