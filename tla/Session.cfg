\* A Verilog design, one wrap or test-point insertion; commands fail or die between two writes,
\* and are resumed.
SPECIFICATION Spec
CONSTANTS
  Libs = {"sky130"}
  Options = {0}
  Modes = {"functional"}
  Chains = {1, 2}
  Broken = {2}
  Inequivalent = {1}
  Verilog = TRUE
  MaxEdits = 1
  MaxPoints = 1
  Failures = TRUE
  Crashes = TRUE
  None = None
  Torn = Torn
INVARIANTS CampaignIsOfOneDesign GradesCurrentNetlist StaleCampaignIsKnown
