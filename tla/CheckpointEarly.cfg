SPECIFICATION LiveSpec
CONSTANTS
  system = system
  donor_system = donor_system
  vendor = vendor
  Snapped <- MCSnapped
  Vendor = vendor
  RoleOf <- MCRoleOf
  None = None
  MaxKills = 1
  MaxDeaths = 1
  MaxDrifts = 2
  MaxFaults = 3
PROPERTIES
  PublishedSourcesAreThere
