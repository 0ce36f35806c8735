SPECIFICATION Spec
CONSTANTS
  Items = {"dahi", "dahi-sub", "butter"}
  Category <- MCCategory
  Brand <- MCBrand
  Price <- MCPrice
  Kind <- MCKind
  Stocked = {"dahi-sub", "butter"}
  StockLevels <- MCStockLevels
  Feeds = {"decisions"}
  Callers = {"c1", "c2"}
  Clients = {"c1", "c2"}
  Viewers = {"v1"}
  FeedCap = 1
  MaxProduced = 3
  MaxRequests = 2
INVARIANTS
  TypeOK
  StockoutsMatchOutages
PROPERTIES
  
  RequestsAnswered
  ProducersNeverWait
CHECK_DEADLOCK FALSE
