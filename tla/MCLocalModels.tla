---------------------------- MODULE MCLocalModels ----------------------------
(* LocalModels for TLC.  RAM is counted in coarse units.                       *)
EXTENDS LocalModels

MCRequests == {"a1", "b1", "c1", "c2", "d1", "t1", "i1"}

\* Three requests of two callers in one lane; a change of model and of device;
\* one run in either lane; a lane closed under its caller; and two profiles of
\* one model beside a run in the other lane.
MCMixes ==
    {[requests |-> {"c1", "c2", "d1"}, cancels |-> 1, closes |-> FALSE],
     [requests |-> {"a1", "b1"}, cancels |-> 1, closes |-> TRUE],
     [requests |-> {"a1", "c1"}, cancels |-> 0, closes |-> FALSE],
     [requests |-> {"c1"}, cancels |-> 1, closes |-> TRUE],
     [requests |-> {"t1", "i1", "c1"}, cancels |-> 0, closes |-> FALSE]}

MCCaller == [a1 |-> "a", b1 |-> "b", c1 |-> "c", c2 |-> "c", d1 |-> "d", t1 |-> "a", i1 |-> "a"]
MCProfile == [a1 |-> "embed", b1 |-> "rank", c1 |-> "extract", c2 |-> "extract", d1 |-> "extract",
              t1 |-> "text", i1 |-> "image"]
MCCpuOnly == [r \in MCRequests |-> FALSE]
MCLane == [embed |-> "gpu", rank |-> "gpu", extract |-> "cpu", text |-> "gpu", image |-> "gpu"]
MCModel == [embed |-> "gemma", rank |-> "qwen", extract |-> "gliner", text |-> "gemma-2", image |-> "gemma-2"]
MCPeakRAM == [embed |-> [gpu |-> 1, cpu |-> 2], rank |-> [gpu |-> 1, cpu |-> 2],
              extract |-> [gpu |-> 1, cpu |-> 1],
              text |-> [gpu |-> 1, cpu |-> 2], image |-> [gpu |-> 2, cpu |-> 2]]
MCCpuFallback == [embed |-> TRUE, rank |-> FALSE, extract |-> TRUE, text |-> FALSE, image |-> FALSE]
MCBatched == [embed |-> TRUE, rank |-> FALSE, extract |-> FALSE, text |-> FALSE, image |-> FALSE]

\* The deployed catalog (deploy/local-models/models.json) in units of 512 MiB:
\* text and image embeddings by one model, extraction in the other lane.
DeployedRequests == {"text", "image", "extract"}
DeployedMixes == {[requests |-> DeployedRequests, cancels |-> 0, closes |-> FALSE]}
DeployedCaller == [r \in DeployedRequests |-> "memory"]
DeployedProfile == [r \in DeployedRequests |-> r]
DeployedCpuOnly == [r \in DeployedRequests |-> FALSE]
DeployedLane == [text |-> "gpu", image |-> "gpu", extract |-> "cpu"]
DeployedModel == [text |-> "embeddinggemma-2", image |-> "embeddinggemma-2", extract |-> "gliner"]
DeployedPeakRAM == [text |-> [gpu |-> 5, cpu |-> 8], image |-> [gpu |-> 6, cpu |-> 10],
                    extract |-> [gpu |-> 6, cpu |-> 6]]
DeployedCpuFallback == [r \in DeployedRequests |-> TRUE]
DeployedBatched == [text |-> TRUE, image |-> FALSE, extract |-> FALSE]
=============================================================================
