---------------------------- MODULE MCRegistry -----------------------------
(* Scalars, tables and a batch cut short, registered in every order and    *)
(* every combination, nested or not, with two tables that share an entry.  *)
EXTENDS Registry

MCOids == [1..3 -> {1, 2}] \cup [1..4 -> {1, 2}]
          \cup { <<1, 1, 1, 0>>, <<1, 1, 2, 0>>, <<1, 2, 1, 0>>,
                 <<1, 1, 1, 1, 0>>, <<1, 1, 1, 2, 0>>, <<1, 1, 1, 1, 2>>,
                 <<1, 1, 1, 2, 1>>, <<1, 1, 1, 3, 1>>, <<2, 1, 1, 2, 0>>,
                 <<1, 1, 1, 0, 0>>, <<1, 1, 2, 2, 2>> }

Scalar(oid) == [oid |-> oid, columns |-> << >>]
Table(oid, columns) == [oid |-> oid, columns |-> columns]

MCBatches ==
  { << Scalar(<<1, 1, 2>>) >>,
    << Scalar(<<1, 2, 1>>), Scalar(<<2, 2, 1>>) >>,
    << Table(<<1, 1, 1>>, <<1, 2>>) >>,
    << Table(<<1, 1, 1>>, <<2, -1, 1>>), Scalar(<<2, 1, 2>>) >>,
    << Table(<<2, 1, 1>>, <<2>>) >>,
    << Scalar(<<1, 2>>) >>,
    << Table(<<1, 1, 2, 1>>, <<-1>>) >>,
    << Scalar(<<1, 1, 1, 1>>) >>,
    << Scalar(<<2>>), Scalar(<<1, 1, 1, 3>>) >>,
    << Scalar(<<2, 1, 1>>) >> }
============================================================================
