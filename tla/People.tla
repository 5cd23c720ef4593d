------------------------------- MODULE People -------------------------------
(***************************************************************************)
(* The accounts of people (Accounts) and the companies they belong to      *)
(* (Tenancy).  The two share no columns: a request of one component leaves *)
(* the state of the other alone.                                           *)
(***************************************************************************)
EXTENDS Accounts, Tenancy

\* The rows of both keep their types and refer to rows that exist.
PeopleTypeOK == AccountTypeOK /\ TenancyTypeOK
=============================================================================
