------------------------------- MODULE MCDoors -------------------------------
EXTENDS Doors

Model(modality, tier, streaming, route, price, unitPrice, unit) ==
  [modality |-> modality, tier |-> tier, streaming |-> streaming, route |-> route,
   uploads |-> modality = "video", price |-> price, unitPrice |-> unitPrice, unit |-> unit]
Priced == [input |-> 400000, output |-> 1500000]

MCCatalog ==
  {Model("chat", "standard", TRUE, "agreement", Priced, Unusable, "none"),
   Model("chat", "premium", FALSE, "native", Priced, Unusable, "none"),
   Model("image", "standard", FALSE, "binding", NoPrice, 3, "request"),
   Model("tts", "standard", FALSE, "rest", NoPrice, 2, "k_characters"),
   Model("video", "standard", FALSE, "binding", NoPrice, 3, "request"),
   Model("music", "standard", FALSE, "binding", NoPrice, 2, "request"),
   Model("stt", "standard", FALSE, "batch", NoPrice, Unusable, "request")}

\* Every model at every door, streaming or asynchronous where the door has it; at its
\* own door also an unknown model and a body that lacks something.
MCInput ==
  {in \in [door : Modality, model : MCCatalog, known : BOOLEAN, whole : BOOLEAN,
           stream : BOOLEAN, async : BOOLEAN, chars : {1, 1001}] :
     /\ in.stream => in.door = "chat"
     /\ in.async => in.door \in {"image", "tts", "video", "music"}
     /\ \/ in.known /\ in.whole
        \/ in.known # in.whole /\ in.door = in.model.modality /\ ~ in.async
     /\ in.chars = 1 \/ (in.door = in.model.modality /\ in.model.unit = "k_characters")}
MCDeployment == {{"ai", "plane", "media"}, {"plane"}, {"ai", "media"}}

Counts(i, o) == [input |-> i, output |-> o]
OpenAI(i, o, t) == [usageMetadata |-> NoUsage, usage |-> [input |-> i, output |-> o, reasoning |-> t]]
\* In turn: usual, nothing used, reasoning within and beside the output, Gemini's
\* field, a field missing, both fields.
MCReport ==
  {OpenAI(3, 1, 0), OpenAI(0, 0, 0), OpenAI(1, 3, 1), OpenAI(1, 1, 3), OpenAI(3, Unusable, 0),
   [usageMetadata |-> Counts(1, 3), usage |-> [input |-> Unusable, output |-> Unusable, reasoning |-> 0]],
   [usageMetadata |-> Counts(0, 1), usage |-> [input |-> 1, output |-> 1, reasoning |-> 0]]}

Plan(tiers, included, rpm) ==
  [allowed_tiers |-> tiers, signup_credit |-> 0, monthly_included |-> included,
   requests_per_minute |-> rpm, max_output_tokens |-> 1]
MCPlanRow == {Plan({"standard", "premium"}, 2, 1), Plan({"standard"}, 0, 1), Plan({"gold"}, 2, 0)}
=============================================================================
