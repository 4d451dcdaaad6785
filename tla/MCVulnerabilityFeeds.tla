------------------------ MODULE MCVulnerabilityFeeds ------------------------
(* Model checking of VulnerabilityFeeds on a small instance: two NVD pages,  *)
(* of which the later corrects the earlier, and a KEV file.                  *)
EXTENDS VulnerabilityFeeds

MCVersions == {1, 2}
MCNvd == [n1 |-> [c1 |-> {1}, c2 |-> {}],
          n2 |-> [c1 |-> {2}, c2 |-> {1, 2}]]
MCKev == [k1 |-> {"c1"}]
MCTransfers == {[nvd |-> "n1", kev |-> "none"], [nvd |-> "n2", kev |-> "k1"],
                [nvd |-> "n2", kev |-> "broken"]}
MCJobs == {[nvd |-> "n1", kev |-> "k1"], [nvd |-> "none", kev |-> "k1"]}
MCCvss == [c1 |-> 7, c2 |-> 9]
=============================================================================
