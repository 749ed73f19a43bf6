-------------------------- MODULE MCExperimentPlot --------------------------
(* Model values for ExperimentPlot.                                        *)
EXTENDS ExperimentPlot

\* every name the relabelling chain tests, and two it does not (from the
\* reclaimer lists in the comments of the experiment scripts), in Python's
\* string order
AllNames == <<"2geibr", "crystallineL", "crystallineW", "debra", "he",
              "ibr_hp", "ibr_hpasyf", "ibr_popplushp", "ibr_rcu", "nbr",
              "nbr_orig", "nbr_popplushe", "nbrplus", "none", "qsbr",
              "rcu_pophp", "rcu_popplushp", "wfe">>

\* a few reclaimers, 'none' among them, for the data runs
FewNames == <<"he", "ibr_hp", "none">>

MCUniverseAll == ToSet(AllNames)
MCUniverseFew == ToSet(FewNames)

=============================================================================
